---- MODULE Spec2Model ----
(***************************************************************************)
(* Model of the icon-preview extension: the image acquisition pipeline     *)
(* (imageDownloader: transformUrl, fetchUrl, downloadImage) over the       *)
(* on-disk cache (cache: fileExists, writeFile).                           *)
(*                                                                         *)
(* Strings are sequences of tokens; a token stands for a run of characters *)
(* that no operation of the program splits.  Concatenation is \o, so two   *)
(* strings are equal exactly when their token sequences are equal.         *)
(***************************************************************************)
EXTENDS Integers, Sequences, FiniteSets, TLC

(***************************************************************************)
(* Bounds of the model.                                                    *)
(***************************************************************************)
\* number of downloadImage calls a behaviour makes (they may overlap)
MaxCalls == 2
\* number of requests one call may issue (the first one and its redirects)
MaxHops == 2
\* number of changes of theme or configuration during a behaviour
MaxEnvChanges == 1

Calls == 1..MaxCalls

(***************************************************************************)
(* String helpers.                                                         *)
(***************************************************************************)
Last(s) == s[Len(s)]

\* String.prototype.startsWith for a one-token prefix
StartsWith(s, tok) == Len(s) >= 1 /\ s[1] = tok

\* String.prototype.includes for a one-token needle
Includes(s, tok) == \E i \in 1..Len(s) : s[i] = tok

\* index of the first occurrence of tok in s, 0 when there is none
IndexOf(s, tok) ==
    IF Includes(s, tok) THEN CHOOSE i \in 1..Len(s) : s[i] = tok /\ \A j \in 1..(i - 1) : s[j] # tok
    ELSE 0

\* String.prototype.endsWith('.svg')
EndsWithSvg(s) == Len(s) >= 2 /\ s[Len(s) - 1] = "." /\ s[Len(s)] = "svg"

(***************************************************************************)
(* The references the calls are made with.                                 *)
(***************************************************************************)
CdnOrigin == <<"https:", "/", "/", "cdn.example.com">>
UrlSvg == CdnOrigin \o <<"/", "a", ".", "svg">>
UrlJpg == CdnOrigin \o <<"/", "b", ".", "jpg">>
UrlPlain == CdnOrigin \o <<"/", "icon">>
UrlNew == CdnOrigin \o <<"/", "new", "/", "path">>
UrlLucide == <<"https:", "/", "/", "lucide.dev", "/", "icons", "/", "thumbs-up">>
DataSvg == <<"data:image", "/", "svg+xml", ";base64,", "b64(svg1)">>
\* two embedded images whose declared media type holds a parent-directory segment
DataDot1 == <<"data:image", "/", "x", "/", "..", "/", "f", ";base64,", "b64(png1)">>
DataDot2 == <<"data:image", "/", "x", "/", "..", "/", "f", ";base64,", "b64(png2)">>
\* starts with data:image but has no ;base64, part
DataBad == <<"data:image", "/", "png", ",", "b64(png1)">>

Refs == {UrlJpg, UrlPlain, UrlLucide, DataSvg, DataDot1, DataDot2, DataBad}

\* inlineSize: 0 stands for an absent (undefined) or zero size, both falsy
Sizes == {0, 16}

\* svgColor settings
Colors == {"#ffffff", "#112233"}

\* vscode.ColorThemeKind
ThemeLight == 1
ThemeDark == 2
ThemeHighContrast == 3
ThemeHighContrastLight == 4
ThemeKinds == {ThemeLight, ThemeDark, ThemeHighContrast, ThemeHighContrastLight}

(***************************************************************************)
(* imageDownloader: pure functions.                                        *)
(***************************************************************************)
\* the tokens made of the characters [a-z0-9-] alone, in either case
IconNameTokens == {"thumbs-up", "thumbs", "up", "Star", "svg"}

\* the tokens that end with lucide.dev, in either case: the pattern is not anchored
LucideHostTokens == {"lucide.dev", "LUCIDE.DEV", "www.lucide.dev", "notlucide.dev"}

\* /lucide\.dev\/icons\/([a-z0-9-]+)/i matches from token i on
LucideAt(url, i) ==
    /\ i + 4 <= Len(url)
    /\ url[i] \in LucideHostTokens
    /\ url[i + 1] = "/" /\ url[i + 2] \in {"icons", "ICONS"} /\ url[i + 3] = "/"
    /\ url[i + 4] \in IconNameTokens

\* url.match(...): index of the first match, 0 when there is none
LucideMatch(url) ==
    IF \E i \in 1..Len(url) : LucideAt(url, i)
    THEN CHOOSE i \in 1..Len(url) : LucideAt(url, i) /\ \A j \in 1..(i - 1) : ~LucideAt(url, j)
    ELSE 0

\* the mutant keeps the page's host
transformUrlSameHost(url) ==
    IF LucideMatch(url) # 0
    THEN <<"https:", "/", "/", "lucide.dev", "/", "icons", "/", url[LucideMatch(url) + 4], ".", "svg">>
    ELSE url

transformUrl(url) ==
    IF LucideMatch(url) # 0
    THEN <<"https:", "/", "/", "unpkg.com", "/", "lucide-static@latest", "/", "icons", "/",
           url[LucideMatch(url) + 4], ".", "svg">>
    ELSE url

isDarkTheme(kind) == kind = ThemeDark \/ kind = ThemeHighContrast

getThemeSuffix(kind) == IF isDarkTheme(kind) THEN "dark" ELSE "light"

getContrastBackgroundColor(kind) == IF isDarkTheme(kind) THEN "#ffffff" ELSE "#1e1e1e"

\* the size variant's getSvgColor
getSvgColor(kind) == IF isDarkTheme(kind) THEN "#ffffff" ELSE "#000000"

(***************************************************************************)
(* SVG transform.  A document is a token sequence; an attribute is the     *)
(* tokens name=, ", value, ".                                              *)
(***************************************************************************)
Q == "\""

\* responses' bodies and embedded payloads (decoded)
SvgIcon == <<"<svg", " ", "viewBox=", Q, "0 0 24 24", Q, ">",
             "<path", " ", "fill=", Q, "currentColor", Q, "/>", "</svg>">>
PngBytes == <<"PNG", "bytes1">>
PngBytes2 == <<"PNG", "bytes2">>

\* Buffer.from(payload, 'base64')
Base64Decode(payload) ==
    IF payload = <<"b64(svg1)">> THEN SvgIcon
    ELSE IF payload = <<"b64(png1)">> THEN PngBytes
    ELSE IF payload = <<"b64(png2)">> THEN PngBytes2
    ELSE <<>>

\* the spellings /currentColor/gi matches
CurrentColorTokens == {"currentColor", "currentcolor", "CURRENTCOLOR"}

\* viewBoxMatch[1].split(/\s+/).map(Number), printed back by the template string
ViewBoxParts(v) ==
    IF v = "0 0 24 24" THEN <<"0", "0", "24", "24">>
    ELSE IF v = "0 0 32 32" THEN <<"0", "0", "32", "32">>
    ELSE <<"NaN", "undefined", "undefined", "undefined">>

\* /^\d+$/ on an attribute value
IsDigits(v) == v \in {"16", "24", "32"}

\* `${size}` of a number
NumStr(n) == IF n = 16 THEN "16" ELSE IF n = 17 THEN "17" ELSE IF n = 24 THEN "24" ELSE "0"

\* index of the first attribute name="value" (or name='value'), 0 when there is none
AttrIndex(s, name) ==
    IF \E i \in 1..Len(s) : i + 3 <= Len(s) /\ s[i] = name /\ s[i + 1] = Q /\ s[i + 3] = Q
    THEN CHOOSE i \in 1..Len(s) :
            /\ i + 3 <= Len(s) /\ s[i] = name /\ s[i + 1] = Q /\ s[i + 3] = Q
            /\ \A j \in 1..(i - 1) : ~(j + 3 <= Len(s) /\ s[j] = name /\ s[j + 1] = Q /\ s[j + 3] = Q)
    ELSE 0

\* svg.replace(/<svg([^>]*)>/, `<svg$1>${ins}`): ins goes after the root's opening tag
InsertAfterRootTag(svg, ins) ==
    LET i == IndexOf(svg, "<svg")
        closes == IF i = 0 THEN {} ELSE {j \in (i + 1)..Len(svg) : svg[j] \in {">", "/>"}}
    IN  IF closes = {} THEN svg
        ELSE LET k == CHOOSE j \in closes : \A m \in closes : j <= m
             IN  SubSeq(svg, 1, k) \o ins \o SubSeq(svg, k + 1, Len(svg))

\* processed.replace('<svg', `<svg${attrs}`): attrs go after the first <svg
InsertAfterSvg(svg, attrs) ==
    LET i == IndexOf(svg, "<svg")
    IN  IF i = 0 THEN svg ELSE SubSeq(svg, 1, i) \o attrs \o SubSeq(svg, i + 1, Len(svg))

BgRect(x, y, w, h, bgColor) ==
    <<"<rect", " ", "x=", Q, x, Q, " ", "y=", Q, y, Q, " ", "width=", Q, w, Q, " ",
      "height=", Q, h, Q, " ", "fill=", Q, bgColor, Q, " ", "rx=", Q, "2", Q, "/>">>

addBackgroundToSvg(svg, bgColor) ==
    LET vb == AttrIndex(svg, "viewBox=")
    IN  IF vb = 0
        THEN LET wi == AttrIndex(svg, "width=")
                 hi == AttrIndex(svg, "height=")
                 width == IF wi # 0 /\ IsDigits(svg[wi + 2]) THEN svg[wi + 2] ELSE "24"
                 height == IF hi # 0 /\ IsDigits(svg[hi + 2]) THEN svg[hi + 2] ELSE "24"
             IN  InsertAfterRootTag(svg, BgRect("0", "0", width, height, bgColor))
        ELSE LET parts == ViewBoxParts(svg[vb + 2])
             IN  InsertAfterRootTag(svg, BgRect(parts[1], parts[2], parts[3], parts[4], bgColor))

\* the mutant replaces the token as it is spelt in the pattern only
ReplaceCurrentColorExact(content, color) ==
    [i \in 1..Len(content) |-> IF content[i] = "currentColor" THEN color ELSE content[i]]

\* content.replace(/currentColor/gi, color)
ReplaceCurrentColor(content, color) ==
    [i \in 1..Len(content) |-> IF content[i] \in CurrentColorTokens THEN color ELSE content[i]]

InjectFill(processed, color) ==
    IF ~Includes(processed, "stroke=") /\ ~Includes(processed, "fill=")
    THEN InsertAfterSvg(processed, <<" ", "fill=", Q, color, Q>>)
    ELSE processed

\* processSvgContent(content, color) of the variant that composites a background;
\* kind is the colour theme active when it runs
processSvgContent(content, color, kind) ==
    addBackgroundToSvg(InjectFill(ReplaceCurrentColor(content, color), color),
                       getContrastBackgroundColor(kind))

\* processed.replace(/\s*name"[^"]*"/gi, '')
RECURSIVE RemoveAttr(_, _)
RemoveAttr(s, name) ==
    LET i == AttrIndex(s, name)
    IN  IF i = 0 THEN s
        ELSE LET from == IF i > 1 /\ s[i - 1] = " " THEN i - 1 ELSE i
             IN  RemoveAttr(SubSeq(s, 1, from - 1) \o SubSeq(s, i + 4, Len(s)), name)

\* processSvgContent(content, size) of the variant that sizes per call
processSvgContentSized(content, size, kind) ==
    LET color == getSvgColor(kind)
        processed == InjectFill(ReplaceCurrentColor(content, color), color)
    IN  IF size # 0
        THEN InsertAfterSvg(RemoveAttr(RemoveAttr(processed, "width="), "height="),
                 <<" ", "width=", Q, NumStr(size), Q, " ", "height=", Q, NumStr(size), Q>>)
        ELSE processed


(***************************************************************************)
(* Cache paths.  A path is a sequence of segments; a segment is a record   *)
(* [h, t] that stands for the string hex(md5(h)) followed by the tokens t  *)
(* (h = <<>>: no hash part).  md5 is taken to be injective, and its hex    *)
(* digest holds no separator.                                              *)
(***************************************************************************)
Seg(h, t) == [h |-> h, t |-> t]

\* path.join(os.tmpdir(), 'icon-preview-cache')
cacheDir == <<Seg(<<>>, <<"tmp">>), Seg(<<>>, <<"icon-preview-cache">>)>>

NoPath == <<>>

\* the segments of the file name hex(md5(h)) + t, split at the separators
RECURSIVE SplitName(_, _)
SplitName(h, t) ==
    IF ~Includes(t, "/") THEN <<Seg(h, t)>>
    ELSE LET i == IndexOf(t, "/")
         IN  <<Seg(h, SubSeq(t, 1, i - 1))>> \o SplitName(<<>>, SubSeq(t, i + 1, Len(t)))

\* path.normalize of absolute segments: empty and "." segments go, ".." pops
RECURSIVE Normalize(_, _)
Normalize(segs, acc) ==
    IF segs = <<>> THEN acc
    ELSE LET sg == Head(segs)
         IN  IF sg.h = <<>> /\ (sg.t = <<>> \/ sg.t = <<".">>) THEN Normalize(Tail(segs), acc)
             ELSE IF sg.h = <<>> /\ sg.t = <<"..">>
                  THEN Normalize(Tail(segs), IF acc = <<>> THEN acc ELSE SubSeq(acc, 1, Len(acc) - 1))
                  ELSE Normalize(Tail(segs), Append(acc, sg))

\* path.join(dir, `${hash}${t}`) where hash = md5(h)
pathJoin(dir, h, t) == Normalize(dir \o SplitName(h, t), <<>>)

\* `-${inlineSize}px` or ''
sizeSuffix(size) == IF size # 0 THEN <<"-", NumStr(size), "px">> ELSE <<>>

\* `-${themeSuffix}${sizeSuffix}`
Stem(suffix, size) == <<"-", suffix>> \o sizeSuffix(size)

\* /^data:image\/([^;]+);base64,(.+)$/ : index of the ;base64, token, 0 when no match
DataMatch(ref) ==
    IF /\ Len(ref) >= 5 /\ ref[1] = "data:image" /\ ref[2] = "/"
       /\ \E k \in 4..(Len(ref) - 1) : ref[k] = ";base64," /\ \A j \in 3..(k - 1) : ref[j] # ";base64,"
    THEN CHOOSE k \in 4..(Len(ref) - 1) : ref[k] = ";base64," /\ \A j \in 3..(k - 1) : ref[j] # ";base64,"
    ELSE 0

\* originalUrl.startsWith('data:image') and the match succeeds
IsEmbedded(ref) == StartsWith(ref, "data:image") /\ DataMatch(ref) # 0

\* mimeType === 'svg+xml' ? 'svg' : mimeType
DataExt(ref) ==
    LET mimeType == SubSeq(ref, 3, DataMatch(ref) - 1)
    IN  IF mimeType = <<"svg+xml">> THEN <<"svg">> ELSE mimeType

\* the file path of an embedded image
DataPath(ref, suffix, size) == pathJoin(cacheDir, ref, Stem(suffix, size) \o <<".">> \o DataExt(ref))

svgPathOf(url, suffix, size) == pathJoin(cacheDir, url, Stem(suffix, size) \o <<".", "svg">>)

pngPathOf(url, suffix, size) == pathJoin(cacheDir, url, Stem(suffix, size) \o <<".", "png">>)

\* an absolute http(s) URL, the only kind protocol.get accepts
IsHttpUrl(u) == Len(u) >= 4 /\ u[1] \in {"https:", "http:"} /\ u[2] = "/" /\ u[3] = "/"

\* `${urlObj.protocol}//${urlObj.host}`
Origin(u) == SubSeq(u, 1, 4)

\* path.extname(new URL(url).pathname) || '.png'
ExtOf(url) ==
    LET n == Len(url)
    IN  IF n >= 7 /\ url[n - 1] = "." /\ url[n] # "/" /\ url[n - 2] # "/"
        THEN <<".", url[n]>>
        ELSE <<".", "png">>

\* the file path of a fetched image that is not SVG
RasterPath(url, suffix, size) == pathJoin(cacheDir, url, Stem(suffix, size) \o ExtOf(url))

CtSvg == <<"image", "/", "svg+xml">>
CtPng == <<"image", "/", "png">>
CtNone == <<>>
ContentTypes == {CtSvg, CtPng}

\* the mutant goes by the declared content type alone
IsSvgPayloadByType(contentType, url, data) ==
    Includes(contentType, "svg+xml") \/ Includes(contentType, "svg")

\* contentType.includes('svg') || url.endsWith('.svg') || dataStr.includes('<svg')
IsSvgPayload(contentType, url, data) ==
    \/ (Includes(contentType, "svg+xml") \/ Includes(contentType, "svg"))
    \/ EndsWithSvg(url)
    \/ Includes(data, "<svg")

\* fs.access(filePath) succeeds
fileExists(fs, filePath) == filePath \in DOMAIN fs


(***************************************************************************)
(* State.                                                                  *)
(***************************************************************************)
VARIABLES
    variant,     \* which downloadImage is built: "themed" (config colour, background) or "sized"
    theme,       \* vscode.window.activeColorTheme.kind
    svgColor,    \* the iconPreview.svgColor setting
    envChanges,  \* how many times theme or setting changed
    files,       \* the cache directory: path -> [data, complete]
    call,        \* per downloadImage call: its position and locals
    net,         \* per downloadImage call: its fetchUrl chain
    limits,      \* what a behaviour is bounded to: [calls, hops]
    dir,         \* what readdir and stat see of the cache directory: entry -> mtimeMs
    sweep,       \* cleanupOldCache: its position and locals, and the clock
    scan,        \* findImportedSymbolsWithPreview: its position, locals and result
    norm,        \* a URL and what transformUrl made of it, applied once and twice
    svg,         \* an SVG text and what processSvgContent made of it
    boot,        \* activate: initCacheDir's mkdir, the directory, the timer of the initial call
    registry,    \* decorationTypes: key -> decoration
    decos,       \* the decoration types created so far
    pass,        \* per updateDecorations call: its position and locals
    timer,       \* the timers of the text-change handler and its timeout variable
    ui           \* the enabled setting, the editors, whether deactivate has run (off), and
                 \* what a behaviour is bounded to

vars == <<variant, theme, svgColor, envChanges, files, call, net, limits, dir, sweep, scan,
          norm, svg, boot, registry, decos, pass, timer, ui>>

\* the state of updateDecorations and of the handlers that call it, but for the theme
decorVars == <<registry, decos, pass, timer, ui>>

\* the state of the parts a downloadImage step leaves alone
aux == <<dir, sweep, scan, norm, svg, boot, decorVars>>

\* the state a cleanupOldCache step leaves alone, but for downloadImage's
auxSweep == <<scan, norm, svg, boot, decorVars>>

\* the state a findImportedSymbolsWithPreview step leaves alone, but for downloadImage's
auxScan == <<dir, sweep, norm, svg, boot, decorVars>>

\* the state an updateDecorations step leaves alone
auxDecor ==
    <<variant, svgColor, envChanges, files, call, net, limits, dir, sweep, scan, norm, svg, boot>>

\* the state of downloadImage, but for the theme
cacheVars == <<variant, svgColor, envChanges, files, call, net, limits>>

(***************************************************************************)
(* cleanupOldCache: constants and locals.                                  *)
(***************************************************************************)
MsPerDay == 24 * 60 * 60 * 1000

\* values of the cacheMaxAgeDays setting
MaxAgeDaysChoices == {1, 7}

\* Date.now() when the extension activates, in ms after a reference instant
SweepClock == 8 * MsPerDay

\* names readdir may list
EntryNames == {"a-dark.svg", "b-dark.png"}

\* modification times around the thresholds
BoundaryMtimes == {SweepClock - d * MsPerDay + k : d \in MaxAgeDaysChoices, k \in {-1, 0, 1}}

NotSeen == -1

SweepOff ==
    [pc |-> "off",            \* off, ready, readdir, stat, unlink, done
     clock |-> SweepClock,    \* Date.now()
     cfgDays |-> 7,           \* the cacheMaxAgeDays setting
     maxAgeDays |-> 0,        \* as read at entry
     now |-> 0,               \* as sampled at entry
     list |-> <<>>,           \* what readdir returned
     i |-> 0,                 \* index of the entry being handled
     seen |-> [e \in EntryNames |-> NotSeen],   \* mtimeMs stat returned
     deleted |-> {},          \* entries unlinked
     failed |-> {},           \* entries whose stat or unlink threw
     deletedCount |-> 0]

SweepIdle == sweep = SweepOff /\ dir = [e \in {} |-> 0]

(***************************************************************************)
(* findImportedSymbolsWithPreview: locals.                                 *)
(***************************************************************************)
ScanOff ==
    [pc |-> "off",        \* off, ready, lookup, open, returned, rejected
     variant |-> "",      \* "positioned" (entries carry line and column) or "lineKeyed"
     text |-> <<>>,       \* document.getText()
     occ |-> <<>>,        \* the usage matches in the order the loops reach them
     k |-> 0,             \* the match being handled
     symbols |-> <<>>,    \* the candidate names the import scan retained
     targets |-> <<>>,    \* the files of the definitions the lookup returned
     target |-> "",       \* the file that is opened: the one of definitions[0]
     result |-> <<>>,     \* entries pushed so far
     log |-> <<>>]        \* what became of each match handled so far

ScanIdle == scan = ScanOff

NormOff == [pc |-> "off", url |-> <<>>, once |-> <<>>, twice |-> <<>>]

NormIdle == norm = NormOff

SvgOff == [pc |-> "off", content |-> <<>>, size |-> 0, out |-> <<>>]

SvgIdle == svg = SvgOff

\* activation is over: the cache directory is there, the timer of the initial call has run
BootDone ==
    [mkdir |-> "made",    \* fs.mkdir of initCacheDir: pending, made, failed
     exists |-> TRUE,     \* the cache directory is on disk
     initial |-> TRUE,    \* the timer of the initial call has fired
     early |-> 0]         \* writeFile calls made while the mkdir was pending

BootIdle == boot = BootDone

(***************************************************************************)
(* updateDecorations and the handlers of activate: locals.                 *)
(***************************************************************************)
\* how many updateDecorations calls a behaviour holds
MaxPasses == 3

PassIds == 1..MaxPasses

IdlePass ==
    [pc |-> "idle",          \* idle, resolving, acquiring, done
     editor |-> "",          \* the editor the call was made for
     trigger |-> "",         \* the handler that made the call: editor, timer, theme
     tid |-> 0,              \* the timer that made the call, 0 when none did
     sawEnabled |-> TRUE,    \* config.enabled as read at entry
     during |-> {},          \* the calls for the same document in progress at entry
     alone |-> TRUE,         \* no call for any document was in progress at entry
     cleared |-> {},         \* decorations disposed by the clearing at entry
     lookups |-> 0,          \* calls of findImportedSymbolsWithPreview
     entries |-> <<>>,       \* previewUrls: the lines, in iteration order
     i |-> 0,                \* the entry whose downloadImage is awaited
     suffix |-> "",          \* the theme suffix that downloadImage call sampled
     io |-> "",              \* what that call did on disk: hit, miss, written, failed
     file |-> "",            \* the cache file of that call
     missing |-> {},         \* the entries whose file was not there when the marker was made
     fetches |-> <<>>,       \* per entry, the downloadImage calls made for it
     outcome |-> <<>>]       \* per entry handled: ok, rejected, lineGone

EmptyRegistry == [k \in {} |-> 0]

NoTimers == [handle |-> 0, t |-> <<>>]

NoCaps == [passes |-> 0, lists |-> {}, editors |-> {}, toggles |-> 0, themes |-> 0, edits |-> 0]

DecorIdle ==
    /\ registry = EmptyRegistry
    /\ decos = <<>>
    /\ pass = [p \in PassIds |-> IdlePass]
    /\ timer = NoTimers
    /\ ui = [enabled |-> TRUE, active |-> "", visible |-> {}, toggles |-> 0, themes |-> 0,
             edits |-> 0, wiped |-> {}, off |-> FALSE, caps |-> NoCaps]

\* what the server may answer
Statuses == {200, 301, 302, 303, 307, 404}
LocAbsPath == <<"/", "new", "/", "path">>
LocRelPath == <<"new", "/", "path">>
Locations == {<<>>, LocAbsPath, LocRelPath, UrlSvg}
Bodies == {SvgIcon, PngBytes}

IdleCall ==
    [pc |-> "idle", ref |-> <<>>, size |-> 0, color |-> "", suffix |-> "", url |-> <<>>,
     path |-> NoPath, content |-> <<>>, result |-> NoPath,
     found |-> NoPath,  \* the path a cache probe of this call found a file at
     missed |-> {},     \* the paths a cache probe of this call found no file at
     prior |-> 0,       \* a call with the same reference, theme and size that had returned before this one started
     during |-> {},     \* the calls that were in progress when this one started
     partial |-> FALSE, \* the file the probe found was being written
     raw |-> <<>>,      \* the payload as decoded or fetched
     ctype |-> <<>>,    \* the content type fetchUrl resolved with
     writes |-> 0,      \* files this call opened for writing
     class |-> ""]      \* how the fetched payload was classified

IdleNet ==
    [hops |-> 0,           \* requests issued
     cur |-> <<>>,         \* URL of the latest request
     phase |-> "none",     \* of the latest request: headers, body, ended, destroyed
     stale |-> FALSE,      \* the timer of an earlier, redirected request is still armed
     settled |-> "none",   \* the promise downloadImage awaits: pending, resolved, rejected
     final |-> 0,          \* status of the response that was not followed as a redirect
     timedOut |-> FALSE,   \* the timeout fired on a request that had not completed
     late |-> FALSE,       \* a response or body arrived after the promise was settled
     redirBase |-> <<>>,   \* URL of the request that was answered by a redirect last
     redirLoc |-> <<>>,    \* its Location value
     follow |-> <<>>,      \* URL of the request issued for that redirect, <<>> when none was
     byTimer |-> FALSE]    \* a timeout handler rejected the promise

CacheInit ==
    /\ variant \in {"themed", "sized"}
    /\ theme \in {ThemeDark, ThemeLight}
    /\ svgColor = "#ffffff"
    /\ envChanges = 0
    /\ files = [f \in {} |-> [data |-> <<>>, complete |-> TRUE]]
    /\ call = [c \in Calls |-> IdleCall]
    /\ net = [c \in Calls |-> IdleNet]

\* downloadImage calls only: everything else is at rest
InitCommon == CacheInit /\ SweepIdle /\ ScanIdle /\ NormIdle /\ SvgIdle /\ BootIdle /\ DecorIdle

\* overlapping calls, each fetch bounded to one request
Init == InitCommon /\ limits = [calls |-> MaxCalls, hops |-> 1]

\* one call, its fetch following redirects
InitFetch == InitCommon /\ limits = [calls |-> 1, hops |-> MaxHops]

Returned(c) == call[c].pc = "done"

(***************************************************************************)
(* The environment: theme and setting changes.                             *)
(***************************************************************************)
ChangeTheme(k) ==
    /\ envChanges < MaxEnvChanges
    /\ k # theme
    /\ theme' = k
    /\ envChanges' = envChanges + 1
    /\ UNCHANGED <<aux, limits, variant, svgColor, files, call, net>>

ChangeColor(col) ==
    /\ envChanges < MaxEnvChanges
    /\ variant = "themed"
    /\ col # svgColor
    /\ svgColor' = col
    /\ envChanges' = envChanges + 1
    /\ UNCHANGED <<aux, limits, variant, theme, files, call, net>>

(***************************************************************************)
(* downloadImage.                                                          *)
(***************************************************************************)
\* the SVG text a call stores: processSvgContent as its variant calls it, at theme kind
Processed(c, content, kind) ==
    IF variant = "themed" THEN processSvgContent(content, call[c].color, kind)
    ELSE processSvgContentSized(content, call[c].size, kind)

\* entry: config and theme suffix are sampled, then either the embedded-data branch
\* up to its fileExists, or transformUrl up to the first fileExists
Start(c, ref, size) ==
    /\ call[c].pc = "idle"
    /\ c <= limits.calls
    /\ \A d \in Calls : d < c => call[d].pc # "idle"
    /\ variant = "themed" => size = 0
    /\ LET suffix == getThemeSuffix(theme)
           isData == IsEmbedded(ref)
           priors == {d \in Calls : /\ Returned(d) /\ call[d].ref = ref
                                    /\ call[d].suffix = suffix /\ call[d].size = size}
       IN  call' = [call EXCEPT ![c] =
                [@ EXCEPT !.pc = IF isData THEN "probeData" ELSE "probeSvg",
                          !.ref = ref,
                          !.size = size,
                          !.color = IF variant = "themed" THEN svgColor ELSE "",
                          !.suffix = suffix,
                          !.url = IF isData THEN ref ELSE transformUrl(ref),
                          !.path = IF isData THEN DataPath(ref, suffix, size)
                                   ELSE svgPathOf(transformUrl(ref), suffix, size),
                          !.prior = IF priors = {} THEN 0 ELSE CHOOSE d \in priors : TRUE,
                          !.during = {d \in Calls : call[d].pc \notin {"idle", "done", "rejected"}}]]
    /\ UNCHANGED <<aux, limits, variant, theme, svgColor, envChanges, files, net>>

\* a writeFile to filePath has opened the file and not finished
BeingWritten(filePath) ==
    \/ ~files[filePath].complete
    \/ \E d \in Calls : call[d].pc = "writing" /\ call[d].path = filePath

\* "svg" for a path that ends in .svg, "raster" for any other
ClassOfPath(filePath) ==
    LET t == Last(filePath).t
    IN  IF Len(t) >= 2 /\ t[Len(t) - 1] = "." /\ t[Len(t)] = "svg" THEN "svg" ELSE "raster"

\* return filePath, on a cache hit
CacheHit(c) ==
    [call[c] EXCEPT !.pc = "done", !.found = call[c].path, !.result = call[c].path,
                    !.partial = BeingWritten(call[c].path), !.class = ClassOfPath(call[c].path)]

\* if (await fileExists(filePath)) return filePath; else decode and call writeFile
ProbeData(c) ==
    /\ call[c].pc = "probeData"
    /\ LET decoded == Base64Decode(SubSeq(call[c].ref, DataMatch(call[c].ref) + 1, Len(call[c].ref)))
       IN  IF fileExists(files, call[c].path)
           THEN call' = [call EXCEPT ![c] = CacheHit(c)]
           ELSE call' = [call EXCEPT ![c] =
                    [@ EXCEPT !.pc = "write",
                              !.missed = @ \cup {call[c].path},
                              !.raw = decoded,
                              !.class = IF DataExt(call[c].ref) = <<"svg">> THEN "svg" ELSE "raster",
                              !.content = IF DataExt(call[c].ref) = <<"svg">>
                                          THEN Processed(c, decoded, theme) ELSE decoded]]
    /\ UNCHANGED <<aux, limits, variant, theme, svgColor, envChanges, files, net>>

\* ProbeSvg without the return in the hit branch
ProbeSvgNoReturn(c) ==
    /\ call[c].pc = "probeSvg"
    /\ call' = [call EXCEPT ![c] =
            [@ EXCEPT !.pc = "probePng",
                      !.found = IF fileExists(files, call[c].path) THEN call[c].path ELSE NoPath,
                      !.path = pngPathOf(call[c].url, call[c].suffix, call[c].size)]]
    /\ UNCHANGED <<aux, limits, variant, theme, svgColor, envChanges, files, net>>

\* if (await fileExists(svgPath)) return svgPath;
ProbeSvg(c) ==
    /\ call[c].pc = "probeSvg"
    /\ IF fileExists(files, call[c].path)
       THEN call' = [call EXCEPT ![c] = CacheHit(c)]
       ELSE call' = [call EXCEPT ![c] =
                [@ EXCEPT !.pc = "probePng",
                          !.missed = @ \cup {call[c].path},
                          !.path = pngPathOf(call[c].url, call[c].suffix, call[c].size)]]
    /\ UNCHANGED <<aux, limits, variant, theme, svgColor, envChanges, files, net>>

\* ProbePng that creates the target file before the fetch
ProbePngCreateFirst(c) ==
    /\ call[c].pc = "probePng"
    /\ ~fileExists(files, call[c].path)
    /\ IsHttpUrl(call[c].url)
    /\ files' = [f \in DOMAIN files \cup {call[c].path} |->
                    IF f = call[c].path THEN [data |-> <<>>, complete |-> FALSE] ELSE files[f]]
    /\ call' = [call EXCEPT ![c] = [@ EXCEPT !.pc = "fetch", !.writes = @ + 1]]
    /\ net' = [net EXCEPT ![c] = [@ EXCEPT !.hops = 1, !.cur = call[c].url,
                                           !.phase = "headers", !.settled = "pending"]]
    /\ UNCHANGED <<aux, limits, variant, theme, svgColor, envChanges>>

\* if (await fileExists(pngPath)) return pngPath; else fetchUrl(url) issues its request,
\* or throws at once when url is no http(s) URL
ProbePng(c) ==
    /\ call[c].pc = "probePng"
    /\ IF fileExists(files, call[c].path)
       THEN /\ call' = [call EXCEPT ![c] = CacheHit(c)]
            /\ net' = net
       ELSE IF IsHttpUrl(call[c].url)
            THEN /\ call' = [call EXCEPT ![c] = [@ EXCEPT !.pc = "fetch", !.path = NoPath,
                                                          !.missed = @ \cup {call[c].path}]]
                 /\ net' = [net EXCEPT ![c] = [@ EXCEPT !.hops = 1, !.cur = call[c].url,
                                                        !.phase = "headers", !.settled = "pending"]]
            ELSE /\ call' = [call EXCEPT ![c] = [@ EXCEPT !.pc = "rejected", !.path = NoPath,
                                                          !.missed = @ \cup {call[c].path}]]
                 /\ net' = [net EXCEPT ![c] = [@ EXCEPT !.settled = "rejected"]]
    /\ UNCHANGED <<aux, limits, variant, theme, svgColor, envChanges, files>>


(***************************************************************************)
(* fetchUrl: one request per hop; resolve and reject settle the promise    *)
(* downloadImage awaits, and only the first of them has an effect.         *)
(***************************************************************************)
\* reject(...) on the promise of call c
RejectNet(c) ==
    IF net[c].settled = "pending" THEN [net[c] EXCEPT !.settled = "rejected"] ELSE net[c]

\* downloadImage's catch block rethrows when the awaited promise is rejected
RejectCall(c) ==
    IF net[c].settled = "pending" THEN [call[c] EXCEPT !.pc = "rejected"] ELSE call[c]

\* (statusCode === 301 || statusCode === 302 || statusCode === 307) && headers.location
IsRedirect(status, location) == status \in {301, 302, 307} /\ location # <<>>

\* IsFailureStatus that lets every status below 400 through
IsFailureStatusFrom400(status) == status >= 400

\* if (response.statusCode !== 200) reject
IsFailureStatus(status) == status # 200

\* the URL the redirect is followed to
RedirectUrl(url, location) ==
    IF StartsWith(location, "/") THEN Origin(url) \o location ELSE location

\* the response callback of protocol.get
Response(c, status, location) ==
    /\ net[c].phase = "headers"
    /\ IF IsRedirect(status, location)
       THEN LET redirectUrl == RedirectUrl(net[c].cur, location)
            IN  IF IsHttpUrl(redirectUrl)
                THEN \* fetchUrl(redirectUrl) issues the next request
                     /\ net[c].hops < limits.hops
                     /\ net' = [net EXCEPT ![c] =
                            [@ EXCEPT !.hops = @ + 1, !.cur = redirectUrl, !.stale = TRUE,
                                      !.late = @ \/ net[c].settled # "pending",
                                      !.redirBase = net[c].cur, !.redirLoc = location,
                                      !.follow = redirectUrl]]
                     /\ call' = call
                ELSE \* protocol.get throws inside fetchUrl(redirectUrl): no request, rejected
                     /\ net' = [net EXCEPT ![c] =
                            [RejectNet(c) EXCEPT !.phase = "ended",
                                      !.late = @ \/ net[c].settled # "pending",
                                      !.redirBase = net[c].cur, !.redirLoc = location,
                                      !.follow = <<>>]]
                     /\ call' = [call EXCEPT ![c] = RejectCall(c)]
       ELSE IF IsFailureStatus(status)
            THEN /\ net' = [net EXCEPT ![c] =
                        [RejectNet(c) EXCEPT !.phase = "ended", !.final = status,
                                  !.late = @ \/ net[c].settled # "pending"]]
                 /\ call' = [call EXCEPT ![c] = RejectCall(c)]
            ELSE /\ net' = [net EXCEPT ![c] =
                        [@ EXCEPT !.phase = "body", !.final = status,
                                  !.late = @ \/ net[c].settled # "pending"]]
                 /\ call' = call
    /\ UNCHANGED <<aux, limits, variant, theme, svgColor, envChanges, files>>

\* StoredSuffix read from the theme when the file is stored
StoredSuffixLate(c) == getThemeSuffix(theme)

\* the themeSuffix constant of the call, sampled at its entry
StoredSuffix(c) == call[c].suffix

\* response 'end': resolve({data, contentType}); downloadImage then classifies the
\* payload, transforms it and calls writeFile
End(c, contentType, data) ==
    /\ net[c].phase = "body"
    /\ net' = [net EXCEPT ![c] =
           [@ EXCEPT !.phase = "ended",
                     !.settled = IF @ = "pending" THEN "resolved" ELSE @,
                     !.late = @ \/ net[c].settled # "pending"]]
    /\ IF net[c].settled = "pending"
       THEN IF IsSvgPayload(contentType, call[c].url, data)
            THEN call' = [call EXCEPT ![c] =
                     [@ EXCEPT !.pc = "write", !.raw = data, !.class = "svg", !.ctype = contentType,
                               !.content = Processed(c, data, theme),
                               !.path = svgPathOf(call[c].url, StoredSuffix(c), call[c].size)]]
            ELSE call' = [call EXCEPT ![c] =
                     [@ EXCEPT !.pc = "write", !.raw = data, !.class = "raster", !.ctype = contentType,
                               !.content = data,
                               !.path = RasterPath(call[c].url, StoredSuffix(c), call[c].size)]]
       ELSE call' = call
    /\ UNCHANGED <<aux, limits, variant, theme, svgColor, envChanges, files>>

\* Timeout that destroys the request and does not reject
TimeoutDestroyOnly(c) ==
    /\ net[c].phase \in {"headers", "body"}
    /\ net' = [net EXCEPT ![c] = [@ EXCEPT !.phase = "destroyed", !.timedOut = TRUE]]
    /\ call' = call
    /\ UNCHANGED <<aux, limits, variant, theme, svgColor, envChanges, files>>

\* request.setTimeout(10000, ...) fires on the request in flight:
\* request.destroy(); reject(new Error('Timeout'))
Timeout(c) ==
    /\ net[c].phase \in {"headers", "body"}
    /\ net' = [net EXCEPT ![c] =
           [RejectNet(c) EXCEPT !.phase = "destroyed", !.timedOut = TRUE,
                                !.byTimer = @ \/ net[c].settled = "pending"]]
    /\ call' = [call EXCEPT ![c] = RejectCall(c)]
    /\ UNCHANGED <<aux, limits, variant, theme, svgColor, envChanges, files>>

\* the timer of a request that was answered by a redirect fires (its response is never
\* read, nothing disarms it): that request is destroyed, the promise is rejected, and
\* the request of the later hop stays in flight
StaleTimeout(c) ==
    /\ net[c].stale
    /\ net' = [net EXCEPT ![c] =
           [RejectNet(c) EXCEPT !.stale = FALSE, !.byTimer = @ \/ net[c].settled = "pending"]]
    /\ call' = [call EXCEPT ![c] = RejectCall(c)]
    /\ UNCHANGED <<aux, limits, variant, theme, svgColor, envChanges, files>>

\* request.on('error', reject) and response.on('error', reject)
ConnError(c) ==
    /\ net[c].phase \in {"headers", "body"}
    /\ net' = [net EXCEPT ![c] = [RejectNet(c) EXCEPT !.phase = "failed"]]
    /\ call' = [call EXCEPT ![c] = RejectCall(c)]
    /\ UNCHANGED <<aux, limits, variant, theme, svgColor, envChanges, files>>

(***************************************************************************)
(* cache.writeFile: fs.writeFile opens the file (creating or truncating    *)
(* it), writes the data and closes it; the file exists from the open on.   *)
(***************************************************************************)
WriteOpen(c) ==
    /\ call[c].pc = "write"
    /\ files' = [f \in DOMAIN files \cup {call[c].path} |->
                    IF f = call[c].path THEN [data |-> <<>>, complete |-> FALSE] ELSE files[f]]
    /\ call' = [call EXCEPT ![c] = [@ EXCEPT !.pc = "writing", !.writes = @ + 1]]
    /\ UNCHANGED <<aux, limits, variant, theme, svgColor, envChanges, net>>

\* the write is complete; downloadImage returns the path
WriteClose(c) ==
    /\ call[c].pc = "writing"
    /\ files' = [files EXCEPT ![call[c].path] = [data |-> call[c].content, complete |-> TRUE]]
    /\ call' = [call EXCEPT ![c] = [@ EXCEPT !.pc = "done", !.result = call[c].path]]
    /\ UNCHANGED <<aux, limits, variant, theme, svgColor, envChanges, net>>

NextCache ==
    \/ \E k \in ThemeKinds : ChangeTheme(k)
    \/ \E col \in Colors : ChangeColor(col)
    \/ \E c \in Calls, ref \in Refs, size \in Sizes : Start(c, ref, size)
    \/ \E c \in Calls : ProbeData(c)
    \/ \E c \in Calls : ProbeSvg(c)
    \/ \E c \in Calls : ProbePng(c)
    \/ \E c \in Calls, status \in Statuses, location \in Locations : Response(c, status, location)
    \/ \E c \in Calls, contentType \in ContentTypes, data \in Bodies : End(c, contentType, data)
    \/ \E c \in Calls : Timeout(c)
    \/ \E c \in Calls : ConnError(c)
    \/ \E c \in Calls : WriteOpen(c)
    \/ \E c \in Calls : WriteClose(c)

Spec == Init /\ [][NextCache]_vars


Next ==
    \/ \E c \in Calls : StaleTimeout(c)
    \/ NextCache

SpecFetch == InitFetch /\ [][Next]_vars

(***************************************************************************)
(* Properties.                                                             *)
(***************************************************************************)
\* the key tuple of a call: the string that is hashed, the theme suffix, the size
KeyOf(c) == <<call[c].url, call[c].suffix, call[c].size>>

\* the request tuple of a call: reference, theme suffix, size
TupleOf(c) == <<call[c].ref, call[c].suffix, call[c].size>>

\* the call has opened a cache file for writing
Stored(c) == call[c].writes > 0

\* a path without the extension of its last segment
PathStem(filePath) ==
    LET n == Len(filePath)
        t == filePath[n].t
        dots == {i \in 1..Len(t) : t[i] = "."}
        cut == IF dots = {} THEN Len(t) + 1 ELSE CHOOSE i \in dots : \A j \in dots : j <= i
    IN  [filePath EXCEPT ![n] = Seg(filePath[n].h, SubSeq(t, 1, cut - 1))]

\* C1: a call started after a call with the same reference, theme suffix and size
\* had returned a path is answered by the cache probe: it issues no request, writes
\* nothing, and the two calls together made at most the one fetch of the first.
C1_CacheIdempotence ==
    \A c \in Calls :
        call[c].prior # 0 =>
            /\ call[c].pc \in {"probeData", "probeSvg", "probePng", "done"}
            /\ call[c].pc = "done" => call[c].found # NoPath
            /\ net[c].hops = 0
            /\ net[call[c].prior].hops <= 1

\* C2 as claimed: any two calls that returned a path for the same reference, theme
\* suffix and size returned the same path.
C2_SamePath ==
    \A c, d \in Calls :
        (Returned(c) /\ Returned(d) /\ TupleOf(c) = TupleOf(d)) => call[c].result = call[d].result

\* C2 as amended: any two calls that returned a path for the same reference, theme
\* suffix and size returned paths that agree up to the extension, and the same path
\* when both deal with the same class of content (SVG, or raster).
C2_SamePathUpToExtension ==
    \A c, d \in Calls :
        (Returned(c) /\ Returned(d) /\ TupleOf(c) = TupleOf(d)) =>
            /\ PathStem(call[c].result) = PathStem(call[d].result)
            /\ call[c].class = call[d].class => call[c].result = call[d].result

\* two calls with one tuple returned different paths: one stored raster bytes, one SVG
C2_Witness ==
    \E c, d \in Calls :
        /\ Returned(c) /\ Returned(d) /\ TupleOf(c) = TupleOf(d)
        /\ call[c].class = "svg" /\ call[d].class = "raster"
        /\ call[c].result # call[d].result

\* C3: two calls whose key tuples differ never store under the same cache path.
C3_NoKeyCollision ==
    \A c, d \in Calls :
        (Stored(c) /\ Stored(d) /\ KeyOf(c) # KeyOf(d)) => call[c].path # call[d].path

\* C4: a call whose probe found a file at the SVG path or at the PNG path (for an
\* embedded image, at its file path) has returned exactly that path, has issued no
\* request and has opened no file for writing; the PNG path is returned only by a
\* call whose probe of the SVG path had found nothing.
C4_CacheHitFrame ==
    \A c \in Calls :
        call[c].found # NoPath =>
            LET svgPath == svgPathOf(call[c].url, call[c].suffix, call[c].size)
                pngPath == pngPathOf(call[c].url, call[c].suffix, call[c].size)
            IN  /\ call[c].pc = "done"
                /\ call[c].result = call[c].found
                /\ net[c].hops = 0 /\ net[c].settled = "none"
                /\ call[c].writes = 0
                /\ IF ~IsEmbedded(call[c].ref)
                   THEN \/ call[c].found = svgPath /\ call[c].missed = {}
                        \/ call[c].found = pngPath /\ call[c].missed = {svgPath}
                   ELSE call[c].found = DataPath(call[c].ref, call[c].suffix, call[c].size)

\* a call was answered from the PNG path, another from an SVG path
C4_Witness ==
    \E c, d \in Calls :
        /\ call[c].found # NoPath /\ IsHttpUrl(call[c].url)
        /\ call[c].found = pngPathOf(call[c].url, call[c].suffix, call[c].size)
        /\ call[d].pc = "done" /\ call[d].found = NoPath /\ call[d].result = call[c].found

\* C5: a call that was rejected because its fetch failed has opened no cache file
\* for writing, and the cache holds nothing at the paths derived for it unless
\* another call stored it.
C5_FailedFetchLeavesCache ==
    \A c \in Calls :
        call[c].pc = "rejected" =>
            /\ call[c].writes = 0
            /\ \A f \in DOMAIN files :
                   \E d \in Calls : d # c /\ Stored(d) /\ call[d].path = f

\* a fetch failed on a 404 while the cache held a file of another call
C5_Witness ==
    \E c \in Calls :
        /\ call[c].pc = "rejected" /\ net[c].final = 404
        /\ files # <<>>

\* C6: the file a cache probe found was never one that a writeFile had opened and
\* not finished.
C6_NoPartialRead ==
    \A c \in Calls : call[c].found # NoPath => ~call[c].partial

\* C7: two overlapping calls that missed the probe for the same tuple, got the same
\* payload and store under the same path store identical bytes.
C7_IdenticalWrites ==
    \A c, d \in Calls :
        (/\ c # d /\ d \in call[c].during
         /\ TupleOf(c) = TupleOf(d)
         /\ call[c].pc \in {"write", "writing", "done"} /\ call[c].found = NoPath
         /\ call[d].pc \in {"write", "writing", "done"} /\ call[d].found = NoPath
         /\ call[c].raw = call[d].raw
         /\ call[c].path = call[d].path)
        => call[c].content = call[d].content

\* a relative Location resolved against the origin of the request it answers
ResolveAgainstOrigin(base, location) ==
    IF StartsWith(location, "/") THEN Origin(base) \o location
    ELSE Origin(base) \o <<"/">> \o location

\* C8: after a 301, 302 or 307 response with a relative Location a follow-up request
\* was issued, to the Location resolved against the origin of the answered request.
C8_RedirectResolution ==
    \A c \in Calls :
        (net[c].redirLoc # <<>> /\ ~IsHttpUrl(net[c].redirLoc)) =>
            net[c].follow = ResolveAgainstOrigin(net[c].redirBase, net[c].redirLoc)

\* C9: once the response that is not followed as a redirect has a status other than
\* 200, the call is rejected and has opened no cache file for writing.
C9_Non200Fails ==
    \A c \in Calls :
        net[c].final \notin {0, 200} => call[c].pc = "rejected" /\ call[c].writes = 0

\* a 303 answered the request a redirect was followed to
C9_Witness ==
    \E c \in Calls : net[c].final = 303 /\ net[c].hops = 2 /\ call[c].pc = "rejected"

\* C10: once the timeout fired on a request that had not completed, that request is
\* destroyed and the call is rejected; and once a timeout handler rejected the
\* promise, whatever arrives later, the call stays rejected and opens no cache file.
C10_TimeoutFails ==
    \A c \in Calls :
        /\ net[c].timedOut =>
               net[c].phase = "destroyed" /\ call[c].pc = "rejected" /\ call[c].writes = 0
        /\ net[c].byTimer =>
               net[c].settled = "rejected" /\ call[c].pc = "rejected" /\ call[c].writes = 0

\* a timeout rejected the call, and afterwards a 200 response and its body arrived
C10_Witness ==
    \E c \in Calls :
        /\ net[c].byTimer /\ net[c].late
        /\ net[c].final = 200 /\ net[c].phase = "ended"


(***************************************************************************)
(* cleanupOldCache.                                                        *)
(***************************************************************************)
\* no downloadImage call is made and none can be
CacheAtRest ==
    /\ variant = "themed"
    /\ theme = ThemeDark
    /\ svgColor = "#ffffff"
    /\ envChanges = 0
    /\ files = [f \in {} |-> [data |-> <<>>, complete |-> TRUE]]
    /\ call = [c \in Calls |-> IdleCall]
    /\ net = [c \in Calls |-> IdleNet]
    /\ limits = [calls |-> 0, hops |-> 0]

\* how far the clock runs on during a sweep
MaxTicks == 1

\* activation: the directory holds entries of any age, the sweep has not started
InitSweep ==
    /\ CacheAtRest
    /\ \E days \in MaxAgeDaysChoices :
          sweep = [SweepOff EXCEPT !.pc = "ready", !.cfgDays = days]
    /\ dir \in [EntryNames -> BoundaryMtimes]
    /\ ScanIdle
    /\ NormIdle
    /\ SvgIdle
    /\ BootIdle
    /\ DecorIdle

\* time passes
Tick ==
    /\ sweep.pc \notin {"off", "done"}
    /\ sweep.clock < SweepClock + MaxTicks
    /\ sweep' = [sweep EXCEPT !.clock = @ + 1]
    /\ UNCHANGED <<cacheVars, theme, auxSweep, dir>>

\* entry: getConfig, maxAgeMs, Date.now(), up to the readdir
SweepStart ==
    /\ sweep.pc = "ready"
    /\ sweep' = [sweep EXCEPT !.pc = "readdir", !.maxAgeDays = sweep.cfgDays, !.now = sweep.clock]
    /\ UNCHANGED <<cacheVars, theme, auxSweep, dir>>

maxAgeMs == sweep.maxAgeDays * MsPerDay

\* the orders readdir may list the entries in
Listings == {l \in [1..Cardinality(DOMAIN dir) -> DOMAIN dir] : \A i, j \in DOMAIN l : i # j => l[i] # l[j]}

\* the loop moves to the next entry, or past the last one
SweepAdvance(sw) ==
    IF sw.i < Len(sw.list) THEN [sw EXCEPT !.pc = "stat", !.i = @ + 1] ELSE [sw EXCEPT !.pc = "done"]

\* readdir returns, or throws into the outer catch
SweepReaddir(ok) ==
    /\ sweep.pc = "readdir"
    /\ ok => boot.exists
    /\ IF ok
       THEN \E l \in Listings : sweep' = SweepAdvance([sweep EXCEPT !.list = l, !.i = 0])
       ELSE sweep' = [sweep EXCEPT !.pc = "done"]
    /\ UNCHANGED <<cacheVars, theme, auxSweep, dir>>

\* the mutant deletes the entry that is exactly maxAgeMs old as well
IsExpiredInclusive(fileAge) == fileAge >= maxAgeMs

\* fileAge > maxAgeMs
IsExpired(fileAge) == fileAge > maxAgeMs

\* the mutant has no try around the entry: a stat that throws ends the loop
SweepStatAborts(ok) ==
    /\ sweep.pc = "stat"
    /\ LET file == sweep.list[sweep.i]
       IN  IF ok /\ file \in DOMAIN dir
           THEN LET sw == [sweep EXCEPT !.seen[file] = dir[file]]
                IN  sweep' = IF IsExpired(sweep.now - dir[file])
                             THEN [sw EXCEPT !.pc = "unlink"]
                             ELSE SweepAdvance(sw)
           ELSE sweep' = [sweep EXCEPT !.pc = "done", !.failed = @ \cup {file}]
    /\ UNCHANGED <<cacheVars, theme, auxSweep, dir>>

\* stat of the current entry returns and the age is compared, or stat throws
SweepStat(ok) ==
    /\ sweep.pc = "stat"
    /\ LET file == sweep.list[sweep.i]
       IN  IF ok /\ file \in DOMAIN dir
           THEN LET sw == [sweep EXCEPT !.seen[file] = dir[file]]
                IN  sweep' = IF IsExpired(sweep.now - dir[file])
                             THEN [sw EXCEPT !.pc = "unlink"]
                             ELSE SweepAdvance(sw)
           ELSE sweep' = SweepAdvance([sweep EXCEPT !.failed = @ \cup {file}])
    /\ UNCHANGED <<cacheVars, theme, auxSweep, dir>>

\* unlink of the current entry returns and is counted, or throws
SweepUnlink(ok) ==
    /\ sweep.pc = "unlink"
    /\ LET file == sweep.list[sweep.i]
       IN  IF ok /\ file \in DOMAIN dir
           THEN /\ dir' = [e \in DOMAIN dir \ {file} |-> dir[e]]
                /\ sweep' = SweepAdvance([sweep EXCEPT !.deleted = @ \cup {file},
                                                       !.deletedCount = @ + 1])
           ELSE /\ sweep' = SweepAdvance([sweep EXCEPT !.failed = @ \cup {file}])
                /\ UNCHANGED dir
    /\ UNCHANGED <<cacheVars, theme, auxSweep>>

NextSweep ==
    \/ Tick
    \/ SweepStart
    \/ \E ok \in BOOLEAN : SweepReaddir(ok)
    \/ \E ok \in BOOLEAN : SweepStat(ok)
    \/ \E ok \in BOOLEAN : SweepUnlink(ok)

SpecSweep == InitSweep /\ [][NextSweep]_vars

\* the age of an entry as the sweep saw it, and the claimed threshold
AgeSeen(e) == sweep.now - sweep.seen[e]
ThresholdMs == sweep.maxAgeDays * 86400000

\* the sweep looked at the entry and neither its stat nor its unlink threw
Swept(e) == sweep.seen[e] # NotSeen /\ e \notin sweep.failed

\* C11: a finished sweep has deleted an entry exactly when now - mtime exceeds
\* maxAgeDays * 86400000 ms, with now as sampled at entry: an entry 1 ms past the
\* threshold is gone, one exactly at it or 1 ms short of it is still there
C11_EvictionBoundary ==
    sweep.pc = "done" =>
        \A e \in EntryNames :
            Swept(e) =>
                /\ e \in sweep.deleted <=> AgeSeen(e) > ThresholdMs
                /\ e \in sweep.deleted <=> e \notin DOMAIN dir
                /\ AgeSeen(e) = ThresholdMs + 1 => e \notin DOMAIN dir
                /\ AgeSeen(e) \in {ThresholdMs, ThresholdMs - 1} => e \in DOMAIN dir

\* a sweep that deleted an entry 1 ms past the threshold and kept one exactly at it,
\* the clock having moved on since now was sampled
C11_Witness ==
    /\ sweep.pc = "done"
    /\ sweep.clock > sweep.now
    /\ \E e, f \in EntryNames :
          /\ Swept(e) /\ AgeSeen(e) = ThresholdMs + 1 /\ e \notin DOMAIN dir
          /\ Swept(f) /\ AgeSeen(f) = ThresholdMs /\ f \in DOMAIN dir

(***************************************************************************)
(* findImportedSymbolsWithPreview.  Source text is a token sequence: a     *)
(* word (\w+) is one token, a quoted module path is one token, "\n" ends a *)
(* line.                                                                   *)
(***************************************************************************)
Ws == {" ", "\n"}

\* names that start with an upper-case letter, and the other words of the documents
UpperNames == {"Star", "Box", "Icon", "S", "Foo", "Bar", "Baz"}
WordTokens == UpperNames \cup {"box", "type", "as", "from", "import", "const"}
ModuleTokens == {"'lib'"}

\* String.prototype.length of a token
Width(tok) ==
    CASE tok \in {"import"} -> 6
      [] tok \in {"'lib'"} -> 5
      [] tok \in {"Star", "Icon", "from", "type"} -> 4
      [] tok \in {"Box", "box", "Foo", "Bar", "Baz"} -> 3
      [] tok \in {"as", "/>"} -> 2
      [] OTHER -> 1

\* a name imported by two statements, used on two lines
DocTwice ==
    <<"import", " ", "{", " ", "Star", " ", "}", " ", "from", " ", "'lib'", "\n",
      "import", " ", "{", " ", "Star", ",", " ", "Box", " ", "}", " ", "from", " ", "'lib'", "\n",
      "<", "Star", "/>", " ", "<", "Box", " ", "/>", "\n",
      "<", "Star", ">">>

\* a default import, an aliased name and a lower-case name; two usages on one line
DocMixed ==
    <<"import", " ", "Icon", ",", " ", "{", " ", "Star", " ", "as", " ", "S", ",", " ", "box", " ", "}",
      " ", "from", " ", "'lib'", "\n",
      "<", "S", "/>", "\n",
      "<", "Icon", "/>", " ", "<", "Star", "/>">>

Documents == {DocTwice, DocMixed}

\* an aliased named import; the alias is what the text uses as a tag
DocAlias ==
    <<"import", " ", "{", " ", "Foo", ",", " ", "Bar", " ", "as", " ", "Baz", " ", "}", " ",
      "from", " ", "'lib'", "\n",
      "<", "Foo", "/>", " ", "<", "Baz", "/>">>

\* a default import and a named import in lower case, both used as tags
DocLower ==
    <<"import", " ", "box", ",", " ", "{", " ", "Star", ",", " ", "type", " ", "}", " ",
      "from", " ", "'lib'", "\n",
      "<", "box", "/>", "\n",
      "<", "type", "/>", " ", "<", "Star", "/>">>

UsageDocuments == {DocAlias, DocLower, DocMixed}

\* the token at i, "" past the end
At(text, i) == IF i \in 1..Len(text) THEN text[i] ELSE ""

\* \s* from i: the index of the first token that is not white space
SkipWs(text, i) ==
    CHOOSE j \in i..(Len(text) + 1) :
        /\ At(text, j) \notin Ws
        /\ \A k \in i..(j - 1) : text[k] \in Ws

NoImport == [ok |-> FALSE, def |-> "", named |-> <<>>, end |-> 0]

\* [\s]*from\s*['"]([^'"]+)['"] from f: the index after the match, 0 when none
FromAt(text, f) ==
    LET w == SkipWs(text, f)
        q == SkipWs(text, w + 1)
    IN  IF At(text, w) = "from" /\ At(text, q) \in ModuleTokens THEN q + 1 ELSE 0

\* (?:{([\s\S]*?)})?[\s]*from\s*['"]([^'"]+)['"] from k; the braces close at the first "}"
ImportTail(text, k) ==
    LET closes == {c \in (k + 1)..Len(text) : text[c] = "}"}
        close == CHOOSE c \in closes : \A d \in closes : c <= d
    IN  IF At(text, k) = "{" /\ closes # {} /\ FromAt(text, close + 1) # 0
        THEN [ok |-> TRUE, def |-> "", named |-> SubSeq(text, k + 1, close - 1),
              end |-> FromAt(text, close + 1)]
        ELSE IF FromAt(text, k) # 0
        THEN [ok |-> TRUE, def |-> "", named |-> <<>>, end |-> FromAt(text, k)]
        ELSE NoImport

\* importRegex anchored at i: with the default-import group, else without it
ImportAt(text, i) ==
    IF At(text, i) # "import" \/ At(text, i + 1) \notin Ws THEN NoImport
    ELSE LET j == SkipWs(text, i + 1)
             a == SkipWs(text, j + 1)
             b == IF At(text, a) = "," THEN SkipWs(text, a + 1) ELSE a
             withDefault == IF At(text, j) \in WordTokens THEN ImportTail(text, b) ELSE NoImport
         IN  IF withDefault.ok THEN [withDefault EXCEPT !.def = text[j]]
             ELSE ImportTail(text, j)

\* s.trim()
RECURSIVE Trim(_)
Trim(seg) ==
    IF seg = <<>> THEN <<>>
    ELSE IF seg[1] \in Ws THEN Trim(Tail(seg))
    ELSE IF seg[Len(seg)] \in Ws THEN Trim(SubSeq(seg, 1, Len(seg) - 1))
    ELSE seg

\* the mutant keeps the local binding: what follows the as
AfterAs(seg) ==
    LET cuts == {a \in 2..(Len(seg) - 1) : seg[a] = "as" /\ seg[a - 1] \in Ws /\ seg[a + 1] \in Ws}
    IN  IF cuts = {} THEN seg
        ELSE Trim(SubSeq(seg, (CHOOSE a \in cuts : \A b \in cuts : a <= b) + 1, Len(seg)))

\* trimmed.split(/\s+as\s+/)[0].trim()
BeforeAs(seg) ==
    LET cuts == {a \in 2..(Len(seg) - 1) : seg[a] = "as" /\ seg[a - 1] \in Ws /\ seg[a + 1] \in Ws}
    IN  IF cuts = {} THEN seg
        ELSE Trim(SubSeq(seg, 1, (CHOOSE a \in cuts : \A b \in cuts : a <= b) - 1))

\* a name of several words is kept as one string; none of the documents uses one as a tag
SeveralWords == "several words"

\* /^[A-Z]/.test(n) of the name a segment gives
StartsUpper(part) == part # <<>> /\ part[1] \in UpperNames

\* namedImports.split(',') mapped and filtered
RECURSIVE NamedSymbols(_)
NamedSymbols(named) ==
    IF named = <<>> THEN <<>>
    ELSE LET commas == {c \in 1..Len(named) : named[c] = ","}
             cut == IF commas = {} THEN Len(named) + 1
                    ELSE CHOOSE c \in commas : \A d \in commas : c <= d
             part == BeforeAs(Trim(SubSeq(named, 1, cut - 1)))
             name == IF Len(part) = 1 THEN part[1] ELSE SeveralWords
             rest == IF cut >= Len(named) THEN <<>> ELSE SubSeq(named, cut + 1, Len(named))
         IN  (IF StartsUpper(part) THEN <<name>> ELSE <<>>) \o NamedSymbols(rest)

\* the import loop from token p on: every match pushes its default import and its named ones
RECURSIVE ImportSymbols(_, _)
ImportSymbols(text, p) ==
    LET hits == {i \in p..Len(text) : ImportAt(text, i).ok}
    IN  IF hits = {} THEN <<>>
        ELSE LET m == ImportAt(text, CHOOSE i \in hits : \A j \in hits : i <= j)
             IN  (IF m.def # "" THEN <<m.def>> ELSE <<>>)
                 \o NamedSymbols(m.named) \o ImportSymbols(text, m.end)

\* the matches of <symbol[\s/>] : indices of the "<" tokens
UsageSet(text, symbol) ==
    {i \in 1..Len(text) : /\ text[i] = "<"
                          /\ At(text, i + 1) = symbol
                          /\ At(text, i + 2) \in Ws \cup {"/>", ">", "/"}}

RECURSIVE Ascending(_)
Ascending(S) ==
    IF S = {} THEN <<>>
    ELSE LET least == CHOOSE i \in S : \A j \in S : i <= j
         IN  <<least>> \o Ascending(S \ {least})

\* document.positionAt(offset of token i)
LineOf(text, i) == Cardinality({k \in 1..(i - 1) : text[k] = "\n"})

RECURSIVE CharOf(_, _)
CharOf(text, i) ==
    IF i <= 1 \/ text[i - 1] = "\n" THEN 0
    ELSE CharOf(text, i - 1) + Width(text[i - 1])

\* one usage match: the symbol, position.line and componentEndColumn
Occurrence(text, symbol, i) ==
    [sym |-> symbol, line |-> LineOf(text, i + 1),
     column |-> CharOf(text, i + 1) + Width(symbol)]

\* for (const symbol of symbols) while (usageRegex.exec(text)): all matches in loop order
RECURSIVE Occurrences(_, _)
Occurrences(text, symbols) ==
    IF symbols = <<>> THEN <<>>
    ELSE LET idx == Ascending(UsageSet(text, Head(symbols)))
         IN  [n \in 1..Len(idx) |-> Occurrence(text, Head(symbols), idx[n])]
             \o Occurrences(text, Tail(symbols))

(***************************************************************************)
(* Declaration files and the two tiers of preview extraction.              *)
(***************************************************************************)
DataPreview == "data:image/svg+xml;base64,AAA"
HttpPreview == "https://example.com/a.svg"
DataPreview2 == "data:image/png;base64,BBB"
DataTokens == {DataPreview, DataPreview2}
HttpTokens == {HttpPreview, "https://lucide.dev/icons/star"}

\* a block that names Star and carries an embedded preview
DeclExact ==
    <<"/**", "\n", "@", "component", " ", "@name", " ", "Star", "\n",
      "@preview", " ", "![img](", DataPreview, ")", " ", "-", " ", "https://lucide.dev/icons/star", "\n",
      "*/", "\n", "const", " ", "Star", " ", "=", "\n", "export", " ", "default", " ", "Star">>

\* a generic preview tag and an exported declaration of Star
DeclExported ==
    <<"/**", " ", "@preview", " ", HttpPreview, " ", "*/", "\n", "export", " ", "const", " ", "Star">>

\* a generic preview tag and a declaration of Star that is not exported
DeclLocal ==
    <<"/**", " ", "@preview", " ", HttpPreview, " ", "*/", "\n", "const", " ", "Star">>

\* a generic preview tag and no declaration of Star
DeclOther ==
    <<"/**", " ", "@preview", " ", HttpPreview, " ", "*/", "\n", "export", " ", "const", " ", "Other">>

DeclFiles == {"exact.d.ts", "exported.ts", "local.ts", "other.ts"}

\* the only block names StarHalf
DeclPrefix ==
    <<"/**", "\n", "@", "component", " ", "@name", " ", "StarHalf", "\n",
      "@preview", " ", "![img](", DataPreview2, ")", "\n",
      "*/", "\n", "const", " ", "StarHalf", " ", "=">>

\* the only block names star, in lower case
DeclCase ==
    <<"/**", "\n", "@", "component", " ", "@name", " ", "star", "\n",
      "@preview", " ", "![img](", DataPreview2, ")", "\n",
      "*/", "\n", "const", " ", "star", " ", "=">>

\* the block of Star has no preview tag; the block of Other, further down, has one
DeclLater ==
    <<"/**", "\n", "@", "component", " ", "@name", " ", "Star", "\n",
      "*/", "\n", "const", " ", "Star", " ", "=", "\n",
      "/**", "\n", "@", "component", " ", "@name", " ", "Other", "\n",
      "@preview", " ", "![img](", DataPreview2, ")", "\n",
      "*/", "\n", "const", " ", "Other", " ", "=">>

NameDeclFiles == {"prefix.d.ts", "case.d.ts", "later.d.ts"}

\* defDoc.getText()
DeclText(file) ==
    CASE file = "exact.d.ts" -> DeclExact
      [] file = "exported.ts" -> DeclExported
      [] file = "local.ts" -> DeclLocal
      [] file = "prefix.d.ts" -> DeclPrefix
      [] file = "case.d.ts" -> DeclCase
      [] file = "later.d.ts" -> DeclLater
      [] OTHER -> DeclOther

\* the tokens that start with the symbol, whatever the case of the letters
StartsWithName(tok, symbol) ==
    \/ tok = symbol
    \/ symbol = "Star" /\ tok \in {"star", "StarHalf"}
    \/ symbol = "S" /\ tok \in {"Star", "star", "StarHalf"}

\* symbolJsDocRegex: the embedded reference of the first match, "" when none
ExactMatch(text, symbol) ==
    LET NameAt(i) == IF At(text, i + 1) = "component" /\ At(text, i + 2) \in Ws
                     THEN SkipWs(text, i + 2) ELSE i + 1
        PreviewAt(p) == /\ text[p] = "@preview"
                        /\ At(text, p + 1) \in Ws
                        /\ At(text, SkipWs(text, p + 1)) = "![img]("
                        /\ At(text, SkipWs(text, p + 1) + 1) \in DataTokens
                        /\ At(text, SkipWs(text, p + 1) + 2) = ")"
        Named(i) == /\ text[i] = "@"
                    /\ At(text, NameAt(i)) = "@name"
                    /\ At(text, NameAt(i) + 1) \in Ws
                    /\ StartsWithName(At(text, SkipWs(text, NameAt(i) + 1)), symbol)
        After(i) == {p \in (SkipWs(text, NameAt(i) + 1) + 1)..Len(text) : PreviewAt(p)}
        starts == {i \in 1..Len(text) : Named(i) /\ After(i) # {}}
    IN  IF starts = {} THEN ""
        ELSE LET i == CHOOSE a \in starts : \A b \in starts : a <= b
                 p == CHOOSE a \in After(i) : \A b \in After(i) : a <= b
             IN  text[SkipWs(text, p + 1) + 1]

\* symbolExistsRegex.test(defText)
SymbolExists(text, symbol) ==
    \E i \in 1..Len(text) :
        /\ text[i] \in {"const", "function", "class"}
        /\ At(text, i + 1) \in Ws
        /\ At(text, SkipWs(text, i + 1)) = symbol

\* simpleRegex: the URL of the first match, "" when none
SimpleMatch(text) ==
    LET UrlAt(p) == LET a == SkipWs(text, p + 1)
                        b == IF At(text, a) \in {"-", "--"} THEN SkipWs(text, a + 1) ELSE a
                        c == IF At(text, b) = "img" THEN SkipWs(text, b + 1) ELSE b
                        d == IF At(text, b) = "img" /\ At(text, c) \in {"-", "--"}
                             THEN SkipWs(text, c + 1) ELSE c
                    IN  d
        hits == {p \in 1..Len(text) : text[p] \in {"@preview", "@Preview"}
                                      /\ At(text, UrlAt(p)) \in HttpTokens}
    IN  IF hits = {} THEN ""
        ELSE text[UrlAt(CHOOSE p \in hits : \A q \in hits : p <= q)]

\* previewMatch[1] of the two tiers, "" when previewMatch is null
PreviewOf(v, text, symbol) ==
    IF ExactMatch(text, symbol) # "" THEN ExactMatch(text, symbol)
    ELSE IF v = "lineKeyed" \/ SymbolExists(text, symbol) THEN SimpleMatch(text)
    ELSE ""

(***************************************************************************)
(* The usage loop.                                                         *)
(***************************************************************************)
NoColumn == -1

\* the mutant never finds a position taken
AlreadyResolvedNever(sc, o) == FALSE

\* result.some(r => r.line === line && r.column === componentEndColumn), or result.has(line)
AlreadyResolved(sc, o) ==
    \E n \in 1..Len(sc.result) :
        /\ sc.result[n].line = o.line
        /\ sc.variant = "positioned" => sc.result[n].column = o.column

\* a record of what became of match k
Logged(sc, k, out, file) ==
    [sc EXCEPT !.log = Append(@, [k |-> k, sym |-> sc.occ[k].sym, line |-> sc.occ[k].line,
                                   column |-> sc.occ[k].column, out |-> out, file |-> file,
                                   targets |-> sc.targets])]

\* the loops run on from match k to the next match whose position is free, or to the return
RECURSIVE ScanFrom(_, _)
ScanFrom(sc, k) ==
    IF k > Len(sc.occ) THEN [sc EXCEPT !.pc = "returned", !.k = k, !.target = "", !.targets = <<>>]
    ELSE IF AlreadyResolved(sc, sc.occ[k])
         THEN ScanFrom(Logged([sc EXCEPT !.targets = <<>>], k, "skipped", ""), k + 1)
    ELSE [sc EXCEPT !.pc = "lookup", !.k = k, !.target = "", !.targets = <<>>]

\* the mutant lets the exception leave the function
CaughtRethrown(sc, out) == [Logged(sc, sc.k, out, sc.target) EXCEPT !.pc = "rejected"]

\* catch (error): logged, and the while loop goes on
Caught(sc, out) == ScanFrom(Logged(sc, sc.k, out, sc.target), sc.k + 1)

\* entry: the import scan and the loops up to the first definition lookup
ScanStart(v, text) ==
    /\ scan.pc = "ready"
    /\ scan' = ScanFrom([scan EXCEPT !.variant = v, !.text = text,
                                     !.symbols = ImportSymbols(text, 1),
                                     !.occ = Occurrences(text, ImportSymbols(text, 1))], 1)
    /\ UNCHANGED <<cacheVars, theme, auxScan>>

\* what vscode.executeDefinitionProvider may do: throw, or return nothing, or a list whose
\* first element is a LocationLink, a Location or neither
LookupKinds == {"throw", "none", "link", "location", "unknown"}

\* the mutant takes the last definition of the list
LastTarget(targets) == targets[Len(targets)]

\* const def = definitions[0]
FirstTarget(targets) == targets[1]

\* targets: the files of the definitions returned, in order
ScanLookup(kind, targets) ==
    /\ scan.pc = "lookup"
    /\ kind \in {"throw", "none"} <=> targets = <<>>
    /\ kind = "unknown" => targets = <<"exact.d.ts">>
    /\ LET sc == [scan EXCEPT !.targets = targets]
       IN  scan' = CASE kind = "throw" -> Caught(sc, "lookupThrew")
                     [] kind = "none" -> ScanFrom(Logged(sc, sc.k, "noDefinition", ""), sc.k + 1)
                     [] kind = "unknown" -> ScanFrom(Logged(sc, sc.k, "unknownShape", ""), sc.k + 1)
                     [] OTHER -> [sc EXCEPT !.pc = "open", !.target = FirstTarget(targets)]
    /\ UNCHANGED <<cacheVars, theme, auxScan>>

\* the entry pushed for match k
Entry(sc, url) ==
    [line |-> sc.occ[sc.k].line,
     column |-> IF sc.variant = "positioned" THEN sc.occ[sc.k].column ELSE NoColumn,
     url |-> url]

\* openTextDocument returns and the preview is extracted, or it throws
ScanOpen(ok) ==
    /\ scan.pc = "open"
    /\ LET url == PreviewOf(scan.variant, DeclText(scan.target), scan.occ[scan.k].sym)
       IN  scan' = IF ~ok THEN Caught(scan, "openThrew")
                   ELSE IF url = "" THEN ScanFrom(Logged(scan, scan.k, "noPreview", scan.target), scan.k + 1)
                   ELSE ScanFrom(Logged([scan EXCEPT !.result = Append(@, Entry(scan, url))],
                                        scan.k, "entry", scan.target), scan.k + 1)
    /\ UNCHANGED <<cacheVars, theme, auxScan>>

InitScan ==
    /\ CacheAtRest
    /\ SweepIdle
    /\ NormIdle
    /\ SvgIdle
    /\ BootIdle
    /\ DecorIdle
    /\ scan = [ScanOff EXCEPT !.pc = "ready"]

NextScan ==
    \/ \E v \in {"positioned", "lineKeyed"}, text \in Documents : ScanStart(v, text)
    \/ \E kind \in LookupKinds, targets \in {<<>>} \cup {<<file>> : file \in DeclFiles} :
          ScanLookup(kind, targets)
    \/ \E ok \in BOOLEAN : ScanOpen(ok)

SpecScan == InitScan /\ [][NextScan]_vars

\* the lists a definition lookup may return: none, one or two definitions
TargetLists ==
    {<<>>} \cup {<<f>> : f \in DeclFiles \cup NameDeclFiles}
           \cup {<<f, g>> : f \in DeclFiles \cup NameDeclFiles, g \in {"exact.d.ts", "other.ts"}}

\* documents whose imports hold aliases and lower-case names, lookups that return lists
NextUsage ==
    \/ \E v \in {"positioned", "lineKeyed"}, text \in UsageDocuments : ScanStart(v, text)
    \/ \E kind \in LookupKinds, targets \in TargetLists : ScanLookup(kind, targets)
    \/ \E ok \in BOOLEAN : ScanOpen(ok)

SpecUsage == InitScan /\ [][NextUsage]_vars

\* two handled matches name the same (line, end column of the name)
SamePosition(a, b) == a.line = b.line /\ a.column = b.column

\* C12 as claimed: no two entries of the result share (line, column), and of several
\* usage matches at one (line, end column) only the first one handled produces an entry
C12_FirstOccurrenceOnly ==
    /\ \A n, m \in 1..Len(scan.result) :
          n # m => ~SamePosition(scan.result[n], scan.result[m])
    /\ \A n, m \in 1..Len(scan.log) :
          (n < m /\ SamePosition(scan.log[n], scan.log[m])) => scan.log[m].out # "entry"

\* C12 amended: no two entries of the result share (line, column); of several usage
\* matches at one (line, end column) at most one produces an entry, and every match
\* handled after that one is skipped without a lookup
C12_FirstResolvedOnly ==
    /\ \A n, m \in 1..Len(scan.result) :
          n # m => ~SamePosition(scan.result[n], scan.result[m])
    /\ \A n, m \in 1..Len(scan.log) :
          (n < m /\ SamePosition(scan.log[n], scan.log[m]) /\ scan.log[n].out = "entry")
              => scan.log[m].out = "skipped"

\* a name imported twice: its first match produced the entry, its second was skipped
C12_Witness ==
    /\ scan.pc = "returned"
    /\ scan.variant = "positioned"
    /\ \E n, m \in 1..Len(scan.log) :
          /\ n < m /\ SamePosition(scan.log[n], scan.log[m])
          /\ scan.log[n].out = "entry" /\ scan.log[m].out = "skipped"

\* an export-qualified const, function or class declaration of the symbol
ExportedDecl(text, symbol) ==
    \E i \in 1..Len(text) :
        /\ text[i] = "export"
        /\ At(text, i + 1) \in Ws
        /\ At(text, SkipWs(text, i + 1)) \in {"const", "function", "class"}
        /\ At(text, SkipWs(text, i + 1) + 1) \in Ws
        /\ At(text, SkipWs(text, SkipWs(text, i + 1) + 1)) = symbol

\* C13: a usage produces an entry only from a declaration file that has an exact-name
\* block for the symbol or an exported declaration of it; a file with neither yields
\* no entry, whatever generic preview tag it holds
C13_ExistenceGatedFallback ==
    \A n \in 1..Len(scan.log) :
        scan.log[n].out = "entry" =>
            \/ ExactMatch(DeclText(scan.log[n].file), scan.log[n].sym) # ""
            \/ ExportedDecl(DeclText(scan.log[n].file), scan.log[n].sym)

\* C14: a definition lookup or a document opening that throws never makes the function
\* reject; when it returns, every usage match of every symbol has been handled and every
\* match that resolved has its entry in the result
C14_LookupFailureContained ==
    /\ scan.pc # "rejected"
    /\ scan.pc = "returned" =>
          /\ Len(scan.log) = Len(scan.occ)
          /\ \A k \in 1..Len(scan.occ) : scan.log[k].k = k
          /\ Len(scan.result) = Cardinality({n \in 1..Len(scan.log) : scan.log[n].out = "entry"})
          /\ \A n \in 1..Len(scan.log) :
                scan.log[n].out = "entry" =>
                    \E r \in 1..Len(scan.result) :
                        /\ scan.result[r].line = scan.log[n].line
                        /\ scan.variant = "positioned" => scan.result[r].column = scan.log[n].column

\* a lookup threw, an opening threw, and a later usage still produced its entry
C14_Witness ==
    /\ scan.pc = "returned"
    /\ \E a, b, c \in 1..Len(scan.log) :
          /\ a < c /\ b < c
          /\ scan.log[a].out = "lookupThrew"
          /\ scan.log[b].out = "openThrew"
          /\ scan.log[c].out = "entry"

(***************************************************************************)
(* updateDecorations, clearDecorations and the handlers of activate.       *)
(***************************************************************************)
\* two editors; the URI of the first document is a prefix of the URI of the second
Editors == {"a", "ax"}
Uri(e) == IF e = "a" THEN <<"file:///a.ts">> ELSE <<"file:///a.ts", "x">>

\* key.startsWith(document.uri.toString())
HasPrefix(s, pre) == Len(s) >= Len(pre) /\ SubSeq(s, 1, Len(pre)) = pre

\* `${document.uri.toString()}:${lineIndex}`
LineTok(l) == IF l = 1 THEN "1" ELSE "2"
DecoKey(e, l) == Uri(e) \o <<":", LineTok(l)>>

\* what findImportedSymbolsWithPreview may return: the lines that carry a preview
EntryLists == {<<>>, <<1>>, <<1, 2>>}

\* the registry, the decorations and the calls, as a handler's statements change them
Here == [registry |-> registry, decos |-> decos, pass |-> pass]

Put(st) == registry' = st.registry /\ decos' = st.decos /\ pass' = st.pass

\* decorationType.dispose()
Disposed(ds, ids) ==
    [n \in DOMAIN ds |-> IF n \in ids THEN [ds[n] EXCEPT !.disposed = TRUE, !.attached = FALSE]
                         ELSE ds[n]]

Registered(st) == {st.registry[k] : k \in DOMAIN st.registry}

clearDecorations(st) ==
    [st EXCEPT !.decos = Disposed(@, Registered(st)), !.registry = EmptyRegistry]

\* the calls in progress for the document of editor e
InFlight(st, e) ==
    {q \in PassIds : st.pass[q].pc \in {"resolving", "acquiring"} /\ st.pass[q].editor = e}

Started(st) == {q \in PassIds : st.pass[q].pc # "idle"}

\* the slot of the next call
FreeId(st) == CHOOSE p \in PassIds : st.pass[p].pc = "idle" /\ \A q \in PassIds : q < p => st.pass[q].pc # "idle"

\* slots are left for n more calls
CanStart(st, n) == Cardinality(Started(st)) + n <= ui.caps.passes

\* the mutant goes on with the setting off
ReturnsEarlyNever(enabled) == FALSE

\* if (!config.enabled) return
ReturnsEarly(enabled) == ~enabled

\* updateDecorations(editor) up to its first await: the enabled test, the clearing of the
\* document's registered decorations, the call of findImportedSymbolsWithPreview
updateDecorations(st, e, trigger, tid) ==
    LET p == FreeId(st)
        entered == [IdlePass EXCEPT !.editor = e, !.trigger = trigger, !.tid = tid,
                                    !.sawEnabled = ui.enabled, !.during = InFlight(st, e),
                                    !.alone = \A q \in PassIds : st.pass[q].pc \in {"idle", "done"}]
        mine == {k \in DOMAIN st.registry : HasPrefix(k, Uri(e))}
        ids == {st.registry[k] : k \in mine}
    IN  IF ReturnsEarly(ui.enabled)
        THEN [st EXCEPT !.pass[p] = [entered EXCEPT !.pc = "done"]]
        ELSE [registry |-> [k \in DOMAIN st.registry \ mine |-> st.registry[k]],
              decos |-> Disposed(st.decos, ids),
              pass |-> [st.pass EXCEPT ![p] = [entered EXCEPT !.pc = "resolving", !.cleared = ids,
                                                               !.lookups = 1]]]

\* onDidChangeActiveTextEditor: focus may leave the editors and come back to the same one
EditorChanged(e) ==
    /\ ~ui.off
    /\ e \in ui.visible
    /\ e \in ui.caps.editors
    /\ CanStart(Here, 1)
    /\ Put(updateDecorations(Here, e, "editor", 0))
    /\ ui' = [ui EXCEPT !.active = e]
    /\ UNCHANGED <<auxDecor, theme, timer>>

\* the loop reaches the next entry and calls downloadImage, which samples the theme
\* suffix at its entry; or the loop is over
NextEntry(ps) ==
    IF ps.i < Len(ps.entries)
    THEN [ps EXCEPT !.pc = "acquiring", !.i = @ + 1, !.suffix = getThemeSuffix(theme),
                    !.io = "", !.file = "", !.fetches = Append(@, 1)]
    ELSE [ps EXCEPT !.pc = "done", !.suffix = "", !.io = "", !.file = ""]

\* findImportedSymbolsWithPreview returns
Resolved(p, list) ==
    /\ pass[p].pc = "resolving"
    /\ list \in ui.caps.lists
    /\ pass' = [pass EXCEPT ![p] = NextEntry([@ EXCEPT !.entries = list])]
    /\ UNCHANGED <<auxDecor, theme, registry, decos, timer, ui>>

\* findImportedSymbolsWithPreview throws: the outer catch
ResolveThrew(p) ==
    /\ pass[p].pc = "resolving"
    /\ pass' = [pass EXCEPT ![p] = [@ EXCEPT !.pc = "done"]]
    /\ UNCHANGED <<auxDecor, theme, registry, decos, timer, ui>>

\* the mutant lets the rejection reach the outer catch
AcquireRejectedAborts(ps) == [ps EXCEPT !.pc = "done", !.outcome = Append(@, "rejected")]

\* the inner catch: logged, and the loop goes on
AcquireRejected(ps) == NextEntry([ps EXCEPT !.outcome = Append(@, "rejected")])

\* the awaited downloadImage settles: rejected; or resolved, and then the decoration type
\* is created and registered under its key, and attached unless the line is gone
Acquired(p, out) ==
    /\ pass[p].pc = "acquiring"
    /\ LET ps == pass[p]
           key == DecoKey(ps.editor, ps.entries[ps.i])
           id == Len(decos) + 1
       IN  IF out = "rejected"
           THEN /\ pass' = [pass EXCEPT ![p] = AcquireRejected(ps)]
                /\ UNCHANGED <<registry, decos>>
           ELSE /\ decos' = Append(decos, [key |-> key, suffix |-> ps.suffix, disposed |-> FALSE,
                                           attached |-> out = "ok", shown |-> out = "ok",
                                           by |-> p, n |-> ps.i])
                /\ registry' = [k \in DOMAIN registry \cup {key} |->
                                   IF k = key THEN id ELSE registry[k]]
                /\ pass' = [pass EXCEPT ![p] =
                       NextEntry([ps EXCEPT !.outcome = Append(@, out),
                                            !.missing = IF ps.file # "" /\ ps.file \notin DOMAIN dir
                                                        THEN @ \cup {ps.i} ELSE @])]
    /\ UNCHANGED <<auxDecor, theme, timer, ui>>

\* the enabled setting is switched
ToggleEnabled ==
    /\ ui.toggles < ui.caps.toggles
    /\ ui' = [ui EXCEPT !.enabled = ~@, !.toggles = @ + 1]
    /\ UNCHANGED <<auxDecor, theme, registry, decos, pass, timer>>

\* onDidChangeActiveColorTheme: clearDecorations, then updateDecorations for every
\* visible editor
ThemeChanged(k) ==
    /\ ~ui.off
    /\ ui.themes < ui.caps.themes
    /\ k # theme
    /\ CanStart(Here, Cardinality(ui.visible))
    /\ theme' = k
    /\ LET st0 == clearDecorations(Here)
           st1 == IF "a" \in ui.visible THEN updateDecorations(st0, "a", "theme", 0) ELSE st0
           st2 == IF "ax" \in ui.visible THEN updateDecorations(st1, "ax", "theme", 0) ELSE st1
       IN  Put(st2)
    /\ ui' = [ui EXCEPT !.themes = @ + 1, !.wiped = Registered(Here)]
    /\ UNCHANGED <<auxDecor, timer>>

\* setTimeout(..., 500)
DebounceMs == 500

\* the mutant leaves the pending timer armed
ClearTimeoutNot(t, h) == t

\* if (timeout) clearTimeout(timeout)
ClearTimeout(t, h) ==
    IF h # 0 /\ t[h].state = "armed" THEN [t EXCEPT ![h] = [@ EXCEPT !.state = "cancelled"]] ELSE t

\* onDidChangeTextDocument for the document of editor e
TextChanged(e) ==
    /\ ~ui.off
    /\ ui.edits < ui.caps.edits
    /\ e \in ui.visible
    /\ ui' = [ui EXCEPT !.edits = @ + 1]
    /\ IF ui.active # "" /\ e = ui.active
       THEN timer' = [handle |-> Len(timer.t) + 1,
                      t |-> Append(ClearTimeout(timer.t, timer.handle),
                                   [state |-> "armed", editor |-> e, since |-> 0])]
       ELSE UNCHANGED timer
    /\ UNCHANGED <<auxDecor, theme, registry, decos, pass>>

Armed == {id \in 1..Len(timer.t) : timer.t[id].state = "armed"}

\* half the delay passes with no event
TimePasses ==
    /\ \E id \in Armed : timer.t[id].since < DebounceMs
    /\ timer' = [timer EXCEPT !.t = [id \in DOMAIN timer.t |->
                    IF id \in Armed /\ timer.t[id].since < DebounceMs
                    THEN [timer.t[id] EXCEPT !.since = @ + DebounceMs \div 2]
                    ELSE timer.t[id]]]
    /\ UNCHANGED <<auxDecor, theme, registry, decos, pass, ui>>

\* the timer's callback: updateDecorations(editor) for the editor the handler captured
TimerFired(id) ==
    /\ id \in Armed
    /\ timer.t[id].since >= DebounceMs
    /\ CanStart(Here, 1)
    /\ timer' = [timer EXCEPT !.t[id].state = "fired"]
    /\ Put(updateDecorations(Here, timer.t[id].editor, "timer", id))
    /\ UNCHANGED <<auxDecor, theme, ui>>

\* how many calls overlap, how many edits a burst holds
MaxOverlap == 2
MaxEdits == 3

InitDecorCommon ==
    /\ CacheAtRest
    /\ SweepIdle
    /\ ScanIdle
    /\ NormIdle
    /\ SvgIdle
    /\ BootIdle
    /\ registry = EmptyRegistry
    /\ decos = <<>>
    /\ pass = [p \in PassIds |-> IdlePass]
    /\ timer = NoTimers

\* calls made by editor events, the setting switched in between
InitDecor ==
    /\ InitDecorCommon
    /\ ui = [enabled |-> TRUE, active |-> "", visible |-> Editors, toggles |-> 0, themes |-> 0,
             edits |-> 0, wiped |-> {}, off |-> FALSE,
             caps |-> [passes |-> MaxOverlap, lists |-> EntryLists, editors |-> Editors,
                       toggles |-> 1, themes |-> 0, edits |-> 0]]

NextPass ==
    \/ \E p \in PassIds, list \in EntryLists : Resolved(p, list)
    \/ \E p \in PassIds : ResolveThrew(p)
    \/ \E p \in PassIds, out \in {"ok", "rejected", "lineGone"} : Acquired(p, out)

NextDecor ==
    \/ \E e \in Editors : EditorChanged(e)
    \/ ToggleEnabled
    \/ NextPass

SpecDecor == InitDecor /\ [][NextDecor]_vars

\* a call in progress when the theme changes
InitTheme ==
    /\ InitDecorCommon
    /\ \E vis \in {{"a"}, Editors} :
          ui = [enabled |-> TRUE, active |-> "", visible |-> vis, toggles |-> 0, themes |-> 0,
                edits |-> 0, wiped |-> {}, off |-> FALSE,
                caps |-> [passes |-> MaxPasses, lists |-> {<<>>, <<1>>}, editors |-> {"a"},
                          toggles |-> 0, themes |-> 1, edits |-> 0]]

NextTheme ==
    \/ \E e \in Editors : EditorChanged(e)
    \/ \E k \in ThemeKinds : ThemeChanged(k)
    \/ NextPass

SpecTheme == InitTheme /\ [][NextTheme]_vars

\* edits of the documents, the first editor active
InitDebounce ==
    /\ InitDecorCommon
    /\ ui = [enabled |-> TRUE, active |-> "a", visible |-> Editors, toggles |-> 0, themes |-> 0,
             edits |-> 0, wiped |-> {}, off |-> FALSE,
             caps |-> [passes |-> MaxEdits, lists |-> {<<>>, <<1>>}, editors |-> {},
                       toggles |-> 0, themes |-> 0, edits |-> MaxEdits]]

NextDebounce ==
    \/ \E e \in Editors : TextChanged(e)
    \/ TimePasses
    \/ \E id \in 1..MaxEdits : TimerFired(id)
    \/ NextPass

\* time passes and a due timer runs its callback
SpecDebounce ==
    /\ InitDebounce
    /\ [][NextDebounce]_vars
    /\ WF_vars(TimePasses)
    /\ \A id \in 1..MaxEdits : WF_vars(TimerFired(id))

\* the decoration types a call created for its n-th entry
MadeFor(p, n) == {id \in 1..Len(decos) : decos[id].by = p /\ decos[id].n = n}

\* C15: a downloadImage rejection costs a call only the marker of that entry: the entry
\* is not tried again, every entry of the call is handled, and every entry whose
\* acquisition succeeded (its line still there) got its marker created and attached
C15_RejectionContained ==
    \A p \in PassIds :
        /\ Len(pass[p].fetches) <= Len(pass[p].entries)
        /\ \A n \in 1..Len(pass[p].fetches) : pass[p].fetches[n] = 1
        /\ (pass[p].pc = "done" /\ pass[p].entries # <<>>) =>
              /\ Len(pass[p].outcome) = Len(pass[p].entries)
              /\ Len(pass[p].fetches) = Len(pass[p].entries)
        /\ \A n \in 1..Len(pass[p].outcome) :
              /\ pass[p].outcome[n] = "rejected" => MadeFor(p, n) = {}
              /\ pass[p].outcome[n] = "ok" =>
                    \E id \in MadeFor(p, n) :
                        /\ decos[id].shown
                        /\ decos[id].key = DecoKey(pass[p].editor, pass[p].entries[n])

\* a call whose first acquisition was rejected and whose second one gave a marker
C15_Witness ==
    \E p \in PassIds :
        /\ pass[p].pc = "done"
        /\ pass[p].outcome = <<"rejected", "ok">>
        /\ \E id \in MadeFor(p, 2) : decos[id].attached

\* C18: a call that read the enabled setting as false made no definition lookup and no
\* downloadImage call, disposed nothing, created nothing and is over
C18_DisabledNoProcessing ==
    \A p \in PassIds :
        (pass[p].pc # "idle" /\ ~pass[p].sawEnabled) =>
            /\ pass[p].pc = "done"
            /\ pass[p].lookups = 0
            /\ pass[p].fetches = <<>>
            /\ pass[p].cleared = {}
            /\ \A id \in 1..Len(decos) : decos[id].by # p

\* a call made with the setting off for a document that has an attached marker
C18_Witness ==
    \E p \in PassIds :
        /\ pass[p].pc = "done"
        /\ ~pass[p].sawEnabled
        /\ \E k \in DOMAIN registry :
              /\ HasPrefix(k, Uri(pass[p].editor))
              /\ decos[registry[k]].attached

\* no call is in progress
AllQuiet == \A p \in PassIds : pass[p].pc \in {"idle", "done"}

\* a call started while another one for the same document was in progress
Overlapped == \E p \in PassIds : pass[p].during # {}

\* C20: after overlapping calls for one document have finished, every decoration type
\* that is not disposed is the one the registry holds under its key
C20_LiveMarkersRegistered ==
    (AllQuiet /\ Overlapped) =>
        \A id \in 1..Len(decos) :
            ~decos[id].disposed =>
                /\ decos[id].key \in DOMAIN registry
                /\ registry[decos[id].key] = id

\* C17: after a theme change every decoration type registered at the change is disposed,
\* a call was made for every visible editor, and once no call is in progress every
\* attached marker shows the asset of the theme now active
C17_ThemeChangeInvalidates ==
    ui.themes > 0 =>
        /\ \A id \in ui.wiped : decos[id].disposed
        /\ \A e \in ui.visible : \E p \in PassIds : pass[p].trigger = "theme" /\ pass[p].editor = e
        /\ AllQuiet =>
              \A id \in 1..Len(decos) :
                  decos[id].attached => decos[id].suffix = getThemeSuffix(theme)

\* the calls a timer's callback made
RunsOf(id) == {p \in PassIds : pass[p].tid = id}

IsArmed(id) == id <= Len(timer.t) /\ timer.t[id].state = "armed"

IsSettled(id) == id <= Len(timer.t) /\ timer.t[id].state \in {"fired", "cancelled"}

\* at most one timer is pending, and it is the one the last edit set; a cancelled timer
\* made no call; a timer that ran did so 500 ms after its edit and made one call
SingleSlot ==
    /\ Cardinality(Armed) <= 1
    /\ \A id \in 1..Len(timer.t) :
          /\ timer.t[id].state = "armed" => id = Len(timer.t) /\ RunsOf(id) = {}
          /\ timer.t[id].state = "cancelled" => RunsOf(id) = {}
          /\ timer.t[id].state = "fired" =>
                /\ Cardinality(RunsOf(id)) = 1
                /\ timer.t[id].since >= DebounceMs

\* C16: edits of the active document keep at most one debounced call pending; an edit
\* cancels the pending one, which then never runs; a pending call that no further edit
\* cancels runs, once, 500 ms after its edit
C16_DebounceCoalescing ==
    /\ []SingleSlot
    /\ \A id \in 1..MaxEdits : IsArmed(id) ~> IsSettled(id)

\* a burst of two edits: the first timer cancelled, the second one ran its call
C16_Witness ==
    \E a, b \in 1..Len(timer.t) :
        /\ a < b
        /\ timer.t[a].state = "cancelled"
        /\ timer.t[b].state = "fired" /\ RunsOf(b) # {}

(***************************************************************************)
(* transformUrl on its own.                                                *)
(***************************************************************************)
\* URLs put together from a host, a path, a name and a tail
NormHosts == {"lucide.dev", "LUCIDE.DEV", "www.lucide.dev", "notlucide.dev", "unpkg.com",
              "cdn.example.com"}
NormPaths == {<<"/", "icons", "/">>, <<"/", "ICONS", "/">>, <<"/", "icon", "/">>,
              <<"/", "lucide-static@latest", "/", "icons", "/">>,
              <<"/", "go", "/", "lucide.dev", "/", "icons", "/">>}
NormNames == {<<"thumbs-up">>, <<"Star">>, <<"thumbs", "_", "up">>, <<>>}
NormTails == {<<>>, <<".", "svg">>, <<"?", "v=1">>}

NormInputs ==
    {<<"https:", "/", "/", h>> \o p \o n \o t :
        h \in NormHosts, p \in NormPaths, n \in NormNames, t \in NormTails}

InitNorm ==
    /\ CacheAtRest
    /\ SweepIdle
    /\ ScanIdle
    /\ DecorIdle
    /\ SvgIdle
    /\ BootIdle
    /\ \E url \in NormInputs : norm = [NormOff EXCEPT !.pc = "given", !.url = url]

\* transformUrl(url)
NormOnce ==
    /\ norm.pc = "given"
    /\ norm' = [norm EXCEPT !.pc = "once", !.once = transformUrl(norm.url)]
    /\ UNCHANGED <<cacheVars, theme, dir, sweep, scan, svg, boot, decorVars>>

\* transformUrl(transformUrl(url))
NormTwice ==
    /\ norm.pc = "once"
    /\ norm' = [norm EXCEPT !.pc = "twice", !.twice = transformUrl(norm.once)]
    /\ UNCHANGED <<cacheVars, theme, dir, sweep, scan, svg, boot, decorVars>>

NextNorm == NormOnce \/ NormTwice

SpecNorm == InitNorm /\ [][NextNorm]_vars

\* the places where a URL reads lucide.dev/icons/<name>, <name> made of letters, digits
\* and hyphens
IconPageAt(url) ==
    {i \in 1..(Len(url) - 4) :
        /\ url[i] \in {"lucide.dev", "LUCIDE.DEV", "www.lucide.dev", "notlucide.dev"}
        /\ SubSeq(url, i + 1, i + 3) \in {<<"/", "icons", "/">>, <<"/", "ICONS", "/">>}
        /\ url[i + 4] \in {"thumbs-up", "thumbs", "Star"}}

\* the <name> of the first such place
IconPageName(url) == url[(CHOOSE i \in IconPageAt(url) : \A j \in IconPageAt(url) : i <= j) + 4]

KeysOf(e) == {DecoKey(e, l) : l \in {1, 2}}

\* call p began with no call in progress and no call has begun since
RanAlone(p) ==
    /\ pass[p].pc # "idle"
    /\ pass[p].sawEnabled
    /\ pass[p].alone
    /\ \A q \in PassIds : q > p => pass[q].pc = "idle"

\* the lines for which call p got its preview and its image
AcquiredLines(p) ==
    {pass[p].entries[n] : n \in {i \in 1..Len(pass[p].outcome) : pass[p].outcome[i] # "rejected"}}

\* C21: from the entry of a call that overlaps no other call, every decoration type an
\* earlier call registered for its document is disposed, detached and out of the
\* registry, so before any new one is attached; and when the call is over the registry
\* keys of the document are exactly the lines the call got a preview and an image for
C21_ClearBeforeReapply ==
    \A p \in PassIds :
        RanAlone(p) =>
            /\ \A id \in 1..Len(decos) :
                  (decos[id].by # p /\ decos[id].key \in KeysOf(pass[p].editor)) =>
                      /\ decos[id].disposed
                      /\ ~decos[id].attached
                      /\ \A k \in DOMAIN registry : registry[k] # id
            /\ pass[p].pc = "done" =>
                  DOMAIN registry \cap KeysOf(pass[p].editor)
                      = {DecoKey(pass[p].editor, l) : l \in AcquiredLines(p)}


(***************************************************************************)
(* fetchUrl over a chain of redirects.                                     *)
(***************************************************************************)
\* how many requests a chain may hold
MaxChain == 4

\* one call, its fetch following redirects up to MaxChain requests
InitChain == InitCommon /\ limits = [calls |-> 1, hops |-> MaxChain]

SpecChain == InitChain /\ [][Next]_vars

\* every request but the latest was answered by a redirect that was followed, and the
\* latest is in flight: no response to it, no timeout of it, no error
OnlyRedirects(c) ==
    /\ net[c].hops >= 2
    /\ net[c].phase = "headers"
    /\ net[c].final = 0
    /\ ~net[c].timedOut

\* the chain ended in a 200 whose body arrived
EndedIn200(c) == net[c].hops >= 2 /\ net[c].final = 200 /\ net[c].phase = "ended"

\* C22: a chain of redirects that ends in a 200 is followed to success whatever its
\* length, and while every response is a redirect the call stays unsettled
C22_NoRedirectCap ==
    \A c \in Calls :
        /\ EndedIn200(c) => net[c].settled = "resolved" /\ call[c].pc \in {"write", "writing", "done"}
        /\ OnlyRedirects(c) => net[c].settled = "pending" /\ call[c].pc = "fetch"


(***************************************************************************)
(* cleanupOldCache when stat or unlink throws.                             *)
(***************************************************************************)
\* the sweep reached the entry: its stat returned or threw
Examined(e) == sweep.seen[e] # NotSeen \/ e \in sweep.failed

\* the entries readdir listed
Listed == {sweep.list[n] : n \in 1..Len(sweep.list)}

\* C23: a stat or an unlink that throws costs the sweep only that entry: a sweep that got
\* its listing ends having reached every entry listed, it ends by returning, and the
\* count it reports is the number of entries it removed from the directory
C23_EvictionSurvivesFailures ==
    /\ sweep.pc \in {"off", "ready", "readdir", "stat", "unlink", "done"}
    /\ sweep.deletedCount = Cardinality(sweep.deleted)
    /\ sweep.deleted = EntryNames \ DOMAIN dir
    /\ (sweep.pc = "done" /\ sweep.list # <<>>) =>
          /\ sweep.i = Len(sweep.list)
          /\ \A e \in Listed : Examined(e)
          /\ \A e \in Listed \ sweep.failed : e \in sweep.deleted <=> IsExpired(sweep.now - sweep.seen[e])

\* the stat of the first entry listed threw; the second entry was still reached, deleted
\* and counted
C23_Witness ==
    /\ sweep.pc = "done"
    /\ Len(sweep.list) = 2
    /\ sweep.list[1] \in sweep.failed
    /\ sweep.seen[sweep.list[1]] = NotSeen
    /\ sweep.list[2] \in sweep.deleted
    /\ sweep.deletedCount = 1


(***************************************************************************)
(* Properties of the import scan and of the definition lookup.             *)
(***************************************************************************)
\* C24: every candidate name the import scan retained starts with an upper-case letter,
\* and so does the name of every usage match and of every match a lookup was made for
C24_UppercaseCandidatesOnly ==
    /\ \A n \in 1..Len(scan.symbols) : scan.symbols[n] \in UpperNames
    /\ \A k \in 1..Len(scan.occ) : scan.occ[k].sym \in UpperNames
    /\ \A n \in 1..Len(scan.log) : scan.log[n].sym \in UpperNames


\* the named imports X as Y of a text: the pairs <<X, Y>>
AliasPairs(text) ==
    {<<text[i], text[i + 4]>> :
        i \in {j \in 1..(Len(text) - 4) : text[j + 1] = " " /\ text[j + 2] = "as" /\ text[j + 3] = " "}}

Candidates == {scan.symbols[n] : n \in 1..Len(scan.symbols)}

\* C25: of a named import X as Y the import scan retains X and not Y, and no usage match
\* is made for a tag <Y; for import { Foo, Bar as Baz } and the text <Foo/> <Baz/> the
\* candidates are Foo and Bar and the one usage match is that of <Foo
C25_AliasHandling ==
    scan.pc # "ready" =>
        /\ \A pr \in AliasPairs(scan.text) :
              /\ pr[1] \in Candidates
              /\ pr[2] \notin Candidates
              /\ \A k \in 1..Len(scan.occ) : scan.occ[k].sym # pr[2]
              /\ \A n \in 1..Len(scan.log) : scan.log[n].sym # pr[2]
        /\ scan.text = DocAlias =>
              /\ scan.symbols = <<"Foo", "Bar">>
              /\ scan.occ = <<[sym |-> "Foo", line |-> 1, column |-> 4]>>

\* the scan of import { Foo, Bar as Baz }, <Foo/> <Baz/> returned with the entry of <Foo
C25_Witness ==
    /\ scan.pc = "returned"
    /\ scan.text = DocAlias
    /\ AliasPairs(scan.text) = {<<"Bar", "Baz">>}
    /\ Len(scan.result) = 1
    /\ scan.log[1].sym = "Foo" /\ scan.log[1].out = "entry"


\* the entries of the result at the position of a logged match
EntriesAt(l) ==
    {r \in 1..Len(scan.result) :
        /\ scan.result[r].line = l.line
        /\ scan.variant = "positioned" => scan.result[r].column = l.column}

\* the matches logged before the n-th one that produced an entry at its position
EarlierEntry(n) ==
    \E m \in 1..(n - 1) :
        /\ scan.log[m].out = "entry"
        /\ scan.log[m].line = scan.log[n].line
        /\ scan.variant = "positioned" => scan.log[m].column = scan.log[n].column

\* C26: a usage whose definition lookup returned no target opened no file, produced no
\* entry and did not end the scan, which went on to the next usage; a usage whose lookup
\* returned targets opened the file of the first one only, and its entry carries the
\* preview found in that file
C26_LookupResult ==
    /\ scan.pc # "rejected"
    /\ scan.pc = "open" => scan.targets # <<>> /\ scan.target = scan.targets[1]
    /\ scan.pc = "returned" => Len(scan.log) = Len(scan.occ)
    /\ \A n \in 1..Len(scan.log) :
          LET l == scan.log[n]
          IN  /\ l.k = n
              /\ l.out = "noDefinition" =>
                    /\ l.targets = <<>> /\ l.file = ""
                    /\ ~EarlierEntry(n) => \A r \in EntriesAt(l) : \E m \in (n + 1)..Len(scan.log) :
                                               scan.log[m].out = "entry" /\ r \in EntriesAt(scan.log[m])
              /\ l.out \in {"entry", "noPreview", "openThrew"} =>
                    /\ l.targets # <<>>
                    /\ l.file = l.targets[1]
              /\ l.out = "entry" =>
                    \E r \in EntriesAt(l) :
                        scan.result[r].url = PreviewOf(scan.variant, DeclText(l.targets[1]), l.sym)

\* a lookup returned nothing for the first usage, and the lookup for the next usage
\* returned two targets of which the first, and not the second, holds a preview
C26_Witness ==
    /\ scan.pc = "returned"
    /\ Len(scan.log) >= 2
    /\ scan.log[1].out = "noDefinition"
    /\ scan.log[2].out = "noPreview"
    /\ scan.log[2].targets = <<"other.ts", "exact.d.ts">>
    /\ PreviewOf(scan.variant, DeclText("exact.d.ts"), scan.log[2].sym) # ""
    /\ scan.result = <<>>


\* a documentation block of the text names exactly the symbol and holds, before it
\* closes, a preview tag with the embedded reference url
ExactBlock(text, symbol, url) ==
    \E i \in 1..Len(text) :
        /\ text[i] = "@name"
        /\ At(text, i + 1) \in Ws
        /\ At(text, SkipWs(text, i + 1)) = symbol
        /\ \E p \in (i + 1)..Len(text) :
              /\ text[p] = "@preview"
              /\ \A j \in i..p : text[j] # "*/"
              /\ At(text, SkipWs(text, p + 1)) = "![img]("
              /\ At(text, SkipWs(text, p + 1) + 1) = url

\* C27: the reference the exact-name tier returns for a symbol is that of the preview tag
\* of the block whose @name is exactly the symbol: not of a block that names a longer
\* identifier or the name in another letter case, and not of a later block
C27_ExactNamePrecision ==
    \A n \in 1..Len(scan.log) :
        LET text == DeclText(scan.log[n].file)
            url == ExactMatch(text, scan.log[n].sym)
        IN  (scan.log[n].out = "entry" /\ url # "") => ExactBlock(text, scan.log[n].sym, url)


(***************************************************************************)
(* Properties of what downloadImage stores.                                *)
(***************************************************************************)
\* the extension of the last segment of the path of a URL, .png when it has none
UrlPathExt(url) ==
    LET slashes == {i \in 4..Len(url) : url[i] = "/"}
        from == IF slashes = {} THEN Len(url) + 1 ELSE (CHOOSE i \in slashes : \A j \in slashes : j <= i) + 1
        dots == {i \in (from + 1)..Len(url) : url[i] = "."}
    IN  IF dots = {} THEN <<".", "png">>
        ELSE SubSeq(url, CHOOSE i \in dots : \A j \in dots : j <= i, Len(url))

\* the call fetched a payload and classified it
Fetched(c) == net[c].settled = "resolved" /\ call[c].class # ""

\* the three signs of SVG: the declared type, the end of the URL, the text
SaysSvg(c) ==
    \/ \E i \in 1..Len(call[c].ctype) : call[c].ctype[i] \in {"svg", "svg+xml"}
    \/ SubSeq(call[c].url, Len(call[c].url) - 1, Len(call[c].url)) = <<".", "svg">>
    \/ \E i \in 1..Len(call[c].raw) : call[c].raw[i] = "<svg"

\* C28: a fetched payload is stored as SVG, transformed and under the .svg path, exactly
\* when the content type contains svg or the URL ends in .svg or the text contains <svg;
\* any other payload is stored as it is under the extension of the URL path, .png when
\* the path has none
C28_ContentClassification ==
    \A c \in Calls :
        Fetched(c) =>
            IF SaysSvg(c)
            THEN /\ call[c].class = "svg"
                 /\ call[c].path = pathJoin(cacheDir, call[c].url,
                                            Stem(call[c].suffix, call[c].size) \o <<".", "svg">>)
                 /\ \E k \in ThemeKinds : call[c].content = Processed(c, call[c].raw, k)
            ELSE /\ call[c].class = "raster"
                 /\ call[c].path = pathJoin(cacheDir, call[c].url,
                                            Stem(call[c].suffix, call[c].size) \o UrlPathExt(call[c].url))
                 /\ call[c].content = call[c].raw

\* a payload declared image/png, from a URL without extension, whose text holds <svg was
\* stored transformed under the .svg path
C28_Witness ==
    \E c \in Calls :
        /\ Fetched(c) /\ call[c].pc = "done"
        /\ call[c].ctype = CtPng /\ call[c].url = UrlPlain /\ call[c].raw = SvgIcon
        /\ call[c].class = "svg"
        /\ call[c].content # call[c].raw
        /\ files[call[c].result].data = call[c].content


(***************************************************************************)
(* processSvgContent on its own.                                           *)
(***************************************************************************)
\* opening tags of the root: bare, with a viewBox, with a width and a height
SvgRoots ==
    {<<"<svg", ">">>,
     <<"<svg", " ", "viewBox=", Q, "0 0 24 24", Q, ">">>,
     <<"<svg", " ", "width=", Q, "32", Q, " ", "height=", Q, "32", Q, ">">>}

\* a shape that has its colour from an attribute
PathWith(attr, v) == <<"<path", " ", attr, Q, v, Q, "/>">>

SvgShapes ==
    {PathWith(attr, v) : attr \in {"fill=", "stroke="}, v \in CurrentColorTokens \cup {"none"}}
        \cup {<<"<path", "/>">>}

\* documents of one or two shapes
SvgInputs ==
    {root \o a \o <<"</svg>">> : root \in SvgRoots, a \in SvgShapes}
        \cup {root \o a \o b \o <<"</svg>">> : root \in SvgRoots, a \in SvgShapes, b \in SvgShapes}

\* a text is given to the processSvgContent of either variant, under any theme and colour
InitSvg ==
    /\ variant \in {"themed", "sized"}
    /\ theme \in ThemeKinds
    /\ svgColor \in Colors
    /\ envChanges = 0
    /\ files = [f \in {} |-> [data |-> <<>>, complete |-> TRUE]]
    /\ call = [c \in Calls |-> IdleCall]
    /\ net = [c \in Calls |-> IdleNet]
    /\ limits = [calls |-> 0, hops |-> 0]
    /\ SweepIdle
    /\ ScanIdle
    /\ NormIdle
    /\ BootIdle
    /\ DecorIdle
    /\ \E content \in SvgInputs, size \in Sizes :
          /\ variant = "themed" => size = 0
          /\ svg = [SvgOff EXCEPT !.pc = "given", !.content = content, !.size = size]

\* processSvgContent(content, config.svgColor), or processSvgContent(content, inlineSize)
SvgApply ==
    /\ svg.pc = "given"
    /\ svg' = [svg EXCEPT !.pc = "done",
                          !.out = IF variant = "themed"
                                  THEN processSvgContent(svg.content, svgColor, theme)
                                  ELSE processSvgContentSized(svg.content, svg.size, theme)]
    /\ UNCHANGED <<cacheVars, theme, dir, sweep, scan, norm, boot, decorVars>>

NextSvg == SvgApply

SpecSvg == InitSvg /\ [][NextSvg]_vars

\* sub occurs in s
Contains(s, sub) == \E i \in 1..(Len(s) - Len(sub) + 1) : SubSeq(s, i, i + Len(sub) - 1) = sub

\* how many tokens of s are in the set T
CountIn(s, T) == Cardinality({i \in 1..Len(s) : s[i] \in T})

\* the colour the variant works with: the svgColor setting, or the colour of the theme
UsedColor == IF variant = "themed" THEN svgColor ELSE getSvgColor(theme)

DataBadLucide == <<"data:image", "/", "svg+xml", ",", "lucide.dev", "/", "icons", "/", "thumbs-up">>

EmbeddedRefs == {DataSvg, DataBad, DataBadLucide}

\* one call, made with a reference that starts with data:image
NextEmbedded ==
    \/ \E k \in ThemeKinds : ChangeTheme(k)
    \/ \E col \in Colors : ChangeColor(col)
    \/ \E c \in Calls, ref \in EmbeddedRefs, size \in Sizes : Start(c, ref, size)
    \/ \E c \in Calls : ProbeData(c)
    \/ \E c \in Calls : ProbeSvg(c)
    \/ \E c \in Calls : ProbePng(c)
    \/ \E c \in Calls, status \in Statuses, location \in Locations : Response(c, status, location)
    \/ \E c \in Calls, contentType \in ContentTypes, data \in Bodies : End(c, contentType, data)
    \/ \E c \in Calls : Timeout(c)
    \/ \E c \in Calls : StaleTimeout(c)
    \/ \E c \in Calls : ConnError(c)
    \/ \E c \in Calls : WriteOpen(c)
    \/ \E c \in Calls : WriteClose(c)

SpecEmbedded == InitFetch /\ [][NextEmbedded]_vars

\* starts with data:image and is not of the form data:image/<type>;base64,<payload>
Malformed(ref) ==
    /\ Len(ref) >= 1 /\ ref[1] = "data:image"
    /\ ~(/\ Len(ref) >= 5 /\ ref[2] = "/" /\ ref[3] # ";base64,"
         /\ \E k \in 4..(Len(ref) - 1) : ref[k] = ";base64,")

\* C30: a call made with a malformed embedded reference issues no request, opens no cache
\* file for writing and returns no path: it can only end rejected
C30_MalformedEmbeddedFails ==
    \A c \in Calls :
        Malformed(call[c].ref) =>
            /\ call[c].pc \in {"probeSvg", "probePng", "rejected"}
            /\ net[c].hops = 0
            /\ call[c].writes = 0
            /\ files = <<>>


(***************************************************************************)
(* The theme a cache file is named for and the theme it was made for.      *)
(***************************************************************************)
\* the theme suffix in the name of a cache file: <hash>-<suffix>..., "" when it has none
NamedTheme(filePath) ==
    LET t == Last(filePath).t
    IN  IF Len(t) >= 2 /\ t[1] = "-" /\ t[2] \in {"dark", "light"} THEN t[2] ELSE ""

\* the background a preview is given for a theme: white for dark, #1e1e1e for light
BackgroundFor(suffix) == IF suffix = "dark" THEN "#ffffff" ELSE "#1e1e1e"

\* the text holds the background rectangle filled with bgColor
HasBackground(data, bgColor) ==
    \E i \in 1..Len(data) :
        /\ data[i] = "<rect"
        /\ Contains(SubSeq(data, i, Len(data)), <<"fill=", Q, bgColor, Q, " ", "rx=", Q, "2", Q, "/>">>)

\* C31: every stored SVG text in a file whose name carries a theme suffix holds the
\* background rectangle of that theme, also when the theme changed between the start of
\* the call and the transform of what it fetched
C31_ThemeSuffixMatchesContent ==
    variant = "themed" =>
        \A f \in DOMAIN files :
            (/\ files[f].complete
             /\ ClassOfPath(f) = "svg"
             /\ NamedTheme(f) # ""
             /\ Includes(files[f].data, "<svg"))
            => HasBackground(files[f].data, BackgroundFor(NamedTheme(f)))


\* the call overlapped no other call
RanApart(c) == call[c].during = {} /\ \A d \in Calls : c \notin call[d].during

\* C32: the SVG file a call returns holds the icon's shapes in the svgColor the call
\* read at its entry and in no other colour, also when the reference was acquired by
\* an earlier call under another svgColor
C32_ConfiguredColourHonoured ==
    variant = "themed" =>
        \A c \in Calls :
            (/\ Returned(c) /\ RanApart(c)
             /\ ClassOfPath(call[c].result) = "svg"
             /\ fileExists(files, call[c].result)
             /\ files[call[c].result].complete
             /\ Includes(files[call[c].result].data, "<path"))
            => /\ Contains(files[call[c].result].data, PathWith("fill=", call[c].color))
               /\ \A col \in Colors \ {call[c].color} :
                     ~Contains(files[call[c].result].data, PathWith("fill=", col))


\* the editor of the call that created decoration type id
EditorOf(id) == pass[decos[id].by].editor

\* C33: the clearing at the entry of a call for a document disposes and unregisters only
\* decoration types that calls for that same document created; those of another
\* document, also one whose URI string starts with this document's, are left alone
C33_PassFrameAcrossDocuments ==
    \A p \in PassIds :
        \A id \in pass[p].cleared : EditorOf(id) = pass[p].editor


(***************************************************************************)
(* deactivate.                                                             *)
(***************************************************************************)
\* deactivate(): clearDecorations(); the editor then disposes context.subscriptions, the
\* three event handlers among them.  The timer of the text-change handler and the
\* calls in progress are not among them.
Deactivate ==
    /\ ~ui.off
    /\ Put(clearDecorations(Here))
    /\ ui' = [ui EXCEPT !.off = TRUE]
    /\ UNCHANGED <<auxDecor, theme, timer>>

\* the first editor active, calls made by editor events and by the debounced edit
InitTeardown ==
    /\ InitDecorCommon
    /\ ui = [enabled |-> TRUE, active |-> "a", visible |-> Editors, toggles |-> 0, themes |-> 0,
             edits |-> 0, wiped |-> {}, off |-> FALSE,
             caps |-> [passes |-> MaxOverlap, lists |-> {<<>>, <<1>>}, editors |-> Editors,
                       toggles |-> 0, themes |-> 0, edits |-> 1]]

NextTeardown ==
    \/ \E e \in Editors : EditorChanged(e)
    \/ \E e \in Editors : TextChanged(e)
    \/ TimePasses
    \/ \E id \in 1..MaxEdits : TimerFired(id)
    \/ Deactivate
    \/ NextPass

SpecTeardown == InitTeardown /\ [][NextTeardown]_vars

\* C34: once deactivate has run the registry is empty and no decoration type is
\* attached, whatever was pending or in progress when it ran
C34_TeardownIsFinal ==
    ui.off =>
        /\ registry = EmptyRegistry
        /\ \A id \in 1..Len(decos) : ~decos[id].attached


(***************************************************************************)
(* activate: initCacheDir().then(cleanupOldCache) is started and not       *)
(* awaited; the handlers are registered; a timer makes the initial calls.  *)
(* The downloadImage call a pass awaits is followed on disk: its cache     *)
(* probe and its writeFile.                                                *)
(***************************************************************************)
\* modification times of the files an earlier session left: expired, fresh
LeftMtimes == {SweepClock - 7 * MsPerDay - 1, SweepClock - MsPerDay + 1}

\* activate has returned: the mkdir is pending, the sweep and the initial calls are to come
InitActivate ==
    /\ CacheAtRest
    /\ ScanIdle
    /\ NormIdle
    /\ SvgIdle
    /\ sweep = SweepOff
    /\ \E there \in BOOLEAN :
          /\ boot = [mkdir |-> "pending", exists |-> there, initial |-> FALSE, early |-> 0]
          /\ IF there
             THEN \E S \in SUBSET EntryNames : dir \in [S -> LeftMtimes]
             ELSE dir = [e \in {} |-> 0]
    /\ registry = EmptyRegistry
    /\ decos = <<>>
    /\ pass = [p \in PassIds |-> IdlePass]
    /\ timer = NoTimers
    /\ ui = [enabled |-> TRUE, active |-> "a", visible |-> {"a"}, toggles |-> 0, themes |-> 0,
             edits |-> 0, wiped |-> {}, off |-> FALSE,
             caps |-> [passes |-> MaxOverlap, lists |-> {<<>>, <<1>>}, editors |-> {"a"},
                       toggles |-> 0, themes |-> 0, edits |-> 0]]

\* fs.mkdir(cacheDir, {recursive: true}) returns or throws; initCacheDir catches and
\* resolves either way, and its then-callback enters cleanupOldCache up to the readdir
MkdirDone(ok) ==
    /\ boot.mkdir = "pending"
    /\ boot.exists => ok
    /\ boot' = [boot EXCEPT !.mkdir = IF ok THEN "made" ELSE "failed", !.exists = ok]
    /\ sweep' = [sweep EXCEPT !.pc = "readdir", !.maxAgeDays = sweep.cfgDays, !.now = sweep.clock]
    /\ UNCHANGED <<cacheVars, theme, dir, scan, norm, svg, decorVars>>

\* setTimeout(..., 100): updateDecorations for every visible editor
InitialPass ==
    /\ ~boot.initial
    /\ CanStart(Here, Cardinality(ui.visible))
    /\ LET st1 == IF "a" \in ui.visible THEN updateDecorations(Here, "a", "initial", 0) ELSE Here
           st2 == IF "ax" \in ui.visible THEN updateDecorations(st1, "ax", "initial", 0) ELSE st1
       IN  Put(st2)
    /\ boot' = [boot EXCEPT !.initial = TRUE]
    /\ UNCHANGED <<cacheVars, theme, dir, sweep, scan, norm, svg, timer, ui>>

\* the awaited downloadImage: fs.access of the cache file of its URL has run
DownloadProbe(p, e) ==
    /\ pass[p].pc = "acquiring"
    /\ pass[p].io = ""
    /\ pass' = [pass EXCEPT ![p] =
           [@ EXCEPT !.file = e, !.io = IF boot.exists /\ e \in DOMAIN dir THEN "hit" ELSE "miss"]]
    /\ UNCHANGED <<auxDecor, theme, registry, decos, timer, ui>>

\* the awaited downloadImage, after a miss and a fetch: writeFile(path, ...) has run;
\* fs.writeFile throws when the directory is not there
DownloadWrite(p) ==
    /\ pass[p].pc = "acquiring"
    /\ pass[p].io = "miss"
    /\ IF boot.exists
       THEN /\ dir' = [e \in DOMAIN dir \cup {pass[p].file} |->
                          IF e = pass[p].file THEN sweep.clock ELSE dir[e]]
            /\ pass' = [pass EXCEPT ![p] = [@ EXCEPT !.io = "written"]]
       ELSE /\ dir' = dir
            /\ pass' = [pass EXCEPT ![p] = [@ EXCEPT !.io = "failed"]]
    /\ boot' = [boot EXCEPT !.early = IF boot.mkdir = "pending" THEN @ + 1 ELSE @]
    /\ UNCHANGED <<cacheVars, theme, sweep, scan, norm, svg, registry, decos, timer, ui>>

\* the awaited downloadImage settles: with the path of the file it found or wrote, or
\* rejected after a failed fetch or a failed write
DownloadSettled(p, out) ==
    /\ \/ pass[p].io \in {"hit", "written"} /\ out \in {"ok", "lineGone"}
       \/ pass[p].io \in {"miss", "failed"} /\ out = "rejected"
    /\ Acquired(p, out)

NextActivate ==
    \/ \E ok \in BOOLEAN : MkdirDone(ok)
    \/ InitialPass
    \/ \E e \in Editors : EditorChanged(e)
    \/ \E p \in PassIds, list \in EntryLists : Resolved(p, list)
    \/ \E p \in PassIds : ResolveThrew(p)
    \/ \E p \in PassIds, e \in EntryNames : DownloadProbe(p, e)
    \/ \E p \in PassIds : DownloadWrite(p)
    \/ \E p \in PassIds, out \in {"ok", "rejected", "lineGone"} : DownloadSettled(p, out)
    \/ Tick
    \/ \E ok \in BOOLEAN : SweepReaddir(ok)
    \/ \E ok \in BOOLEAN : SweepStat(ok)
    \/ \E ok \in BOOLEAN : SweepUnlink(ok)

SpecActivate == InitActivate /\ [][NextActivate]_vars

\* C35: no writeFile of a downloadImage call is made while the mkdir of initCacheDir,
\* started by activate, is pending
C35_DirectoryBeforeWrites ==
    boot.early = 0


\* C36: whenever a marker was attached, the cache file of the path the awaited
\* downloadImage returned was there at that moment, also while cleanupOldCache runs
C36_ReturnedPathStaysValid ==
    \A p \in PassIds :
        \A n \in 1..Len(pass[p].outcome) :
            pass[p].outcome[n] = "ok" => n \notin pass[p].missing

====
